---- MODULE Spec2Model ----
(***************************************************************************)
(* KChat: the bounded conversation history store (session_manager.py) and  *)
(* the debounce admission scheduler (src/__init__.py).                     *)
(*                                                                         *)
(* Time of the event loop is counted in ticks of 1/60 s.  Message          *)
(* timestamps (event.time, SimpleMessage.time) are unix seconds.           *)
(***************************************************************************)
EXTENDS Integers, Sequences, FiniteSets, TLC

VARIABLES
    objs,               \* the Session objects ever constructed (a heap; index = reference)
    sessions,           \* SessionManager.sessions: session_id -> reference (0: absent)
    files,              \* sessions/{session_type}_{session_id}.json
    ghost,              \* per Session object: how it started, what was appended since empty
    last_op,            \* the last store operation and the history it found
    nops,               \* number of store operations so far
    now,                \* asyncio.get_event_loop().time(), in ticks of 1/60 s
    last_message_time,  \* SessionState.last_message_time
    pending_sessions,   \* SessionState.pending_sessions
    tasks,              \* the delayed_llm_query tasks ever created, each with its position
    outbox,             \* what matcher.send has delivered, in order
    acts,               \* per session id: the events that passed check_access (time, mention)
    nevents,            \* number of inbound events, administrative calls and faults so far
    cm                  \* the ConfigManager: its files, its lock, its threads' call stacks

store_vars == <<objs, sessions, files, ghost, last_op, nops>>

sched_vars == <<now, last_message_time, pending_sessions, tasks, outbox, acts, nevents>>

vars == <<objs, sessions, files, ghost, last_op, nops,
          now, last_message_time, pending_sessions, tasks, outbox, acts, nevents, cm>>

-----------------------------------------------------------------------------
(* Bounds of the model *)

MaxOps == 4

(* Program constants *)

MergeWindow == 180
DefaultMaxHistories == 10

Kinds == {"private", "group"}
Ids == {1, 2}
NoFile == [absent |-> TRUE]

Abs(x) == IF x < 0 THEN -x ELSE x
Last(s) == s[Len(s)]

-----------------------------------------------------------------------------
(* Durable record format: the time of a message is written as local time   *)
(* "%Y-%m-%d %H:%M:%S" and parsed back.  Values that are a str in one     *)
(* place and an int in another (time, user_id) are tagged <<"str", v>> or  *)
(* <<"int", v>>, so that a str is never equal to an int.                   *)

T0 == 1000 * 1000

\* The host's local time zone: ahead of UTC by SummerOffset until the instant
\* FallBack, by WinterOffset from then on, so the local times of the hour before
\* FallBack + SummerOffset come twice.
SummerOffset == 2 * 3600
WinterOffset == 1 * 3600
FallBack == T0 + 500 * 1000

LocalOffset(t) == IF t < FallBack THEN SummerOffset ELSE WinterOffset

\* datetime.fromtimestamp(t).strftime("%Y-%m-%d %H:%M:%S")
strftime(t) == <<"str", t + LocalOffset(t)>>

\* int(datetime.strptime(s, "%Y-%m-%d %H:%M:%S").timestamp()): a naive local time
\* that came twice is taken as its first occurrence (fold = 0)
strptime(s) ==
    IF s[2] < FallBack + SummerOffset THEN s[2] - SummerOffset ELSE s[2] - WinterOffset

MapSeq(Op(_), s) == [i \in 1..Len(s) |-> Op(s[i])]

\* SimpleMessageContent: type "text" with a str, or "image_url" with {url, detail}
TextContent(text) == [type |-> "text", data |-> text]
ImageContent(url, detail) == [type |-> "image_url", data |-> [url |-> url, detail |-> detail]]

\* isinstance(data, str): a text (see Text below) is a str, nothing else is
IsStr(data) == "len" \in DOMAIN data

\* isinstance(data, dict) and all(key in data for key in ("url", "detail"))
IsUrlDict(data) == {"url", "detail"} \subseteq DOMAIN data

ContentRaisesNever(type, data) == FALSE

\* SimpleMessageContent.__init__ raises ValueError
ContentRaises(type, data) ==
    IF type = "image_url" THEN ~IsUrlDict(data) ELSE ~IsStr(data)

\* SimpleMessageContent.to_dict: {"type": self.type, self.type: self.data}
Content_to_dict(c) == [k \in {"type", c.type} |-> IF k = "type" THEN c.type ELSE c.data]

\* SimpleMessageContent.from_dict: cls(data["type"], data[data["type"]])
Content_from_dict(d) == [type |-> d["type"], data |-> d[d["type"]]]

\* SimpleMessageContent.from_dict raises: an unknown type, or the constructor does
Content_from_dictRaises(d) ==
    \/ d["type"] \notin {"text", "image_url"}
    \/ ContentRaises(d["type"], d[d["type"]])

SimpleMessage_to_dict(m) ==
    [user_name |-> m.user_name, user_id |-> m.user_id, time |-> strftime(m.time),
     message |-> MapSeq(Content_to_dict, m.message)]

SimpleMessage_from_dict(d) ==
    [user_name |-> d.user_name,
     user_id |-> d.user_id,
     time    |-> IF d.time[1] = "str" THEN strptime(d.time) ELSE d.time[2],
     message |-> MapSeq(Content_from_dict, d.message)]

\* SimpleMessage.from_dict raises: a time that is neither str nor int, or a content
\* that cannot be constructed
SimpleMessage_from_dictRaises(d) ==
    \/ d.time[1] \notin {"str", "int"}
    \/ \E i \in 1..Len(d.message) : Content_from_dictRaises(d.message[i])

Session_to_dict(s) ==
    [session_id    |-> s.session_id,
     session_type  |-> s.session_type,
     self_id       |-> s.self_id,
     max_histories |-> s.max_histories,
     messages      |-> MapSeq(SimpleMessage_to_dict, s.messages)]

FileKey(s) == <<s.session_type, s.session_id>>

save_sessionOff(fs, s) == fs

\* Session._save_session: full overwrite of the conversation's record
save_session(fs, s) == [fs EXCEPT ![FileKey(s)] = Session_to_dict(s)]

\* a file that json.load cannot read: not JSON, cut short, or not readable at all
Unreadable == [unreadable |-> TRUE]

\* the try block of Session._load_session raises (and the except logs it)
load_sessionRaises(rec) ==
    \/ rec = Unreadable
    \/ \E i \in 1..Len(rec.messages) : SimpleMessage_from_dictRaises(rec.messages[i])

load_sessionKeepBroken(fs, type, id) ==
    IF fs[<<type, id>>] = NoFile \/ fs[<<type, id>>] = Unreadable THEN <<>>
    ELSE MapSeq(SimpleMessage_from_dict, fs[<<type, id>>].messages)

\* how a call of _save_session ends: the record is written; open() raises and
\* the file stays as it was; or a write raises after open() has truncated the
\* file, which leaves a file that is not JSON
WriteOutcomes == {"written", "refused", "torn"}

write_sessionRetry(fs, s, w) == save_session(fs, s)

\* Session._save_session with its outcome: the exception is caught and logged
write_session(fs, s, w) ==
    IF w = "written" THEN save_session(fs, s)
    ELSE IF w = "torn" THEN [fs EXCEPT ![FileKey(s)] = Unreadable]
    ELSE fs

\* Session._load_session: the messages of the record, untruncated; none without a
\* record, and none when any part of the load raises
load_session(fs, type, id) ==
    IF fs[<<type, id>>] = NoFile THEN <<>>
    ELSE IF load_sessionRaises(fs[<<type, id>>]) THEN <<>>
    ELSE MapSeq(SimpleMessage_from_dict, fs[<<type, id>>].messages)

\* Session.__init__
NewSession(fs, id, type, self_id, max) ==
    [session_id |-> id, session_type |-> type, self_id |-> self_id,
     max_histories |-> max, messages |-> load_session(fs, type, id)]

\* json.load or Session.from_dict raises in _load_all_sessions: the file is not
\* JSON, a key that from_dict indexes is missing, or a message cannot be read
Session_from_dictRaises(rec) ==
    \/ rec = Unreadable
    \/ ~({"session_id", "session_type", "self_id"} \subseteq DOMAIN rec)
    \/ \E i \in 1..Len(rec.messages) : SimpleMessage_from_dictRaises(rec.messages[i])

\* Session.from_dict: construct (which loads the record), then take the data's messages
Session_from_dict(fs, d) ==
    [NewSession(fs, d.session_id, d.session_type, d.self_id, d.max_histories)
        EXCEPT !.messages = MapSeq(SimpleMessage_from_dict, d.messages)]

-----------------------------------------------------------------------------
(* Merge and eviction *)

MergeableOff(last, new) ==
    /\ last.user_id = new.user_id
    /\ Abs(last.time - new.time) < MergeWindow

\* the condition of Session._try_merge_message
Mergeable(last, new) ==
    /\ last.user_id = new.user_id
    /\ Abs(last.time - new.time) <= MergeWindow

MergeIntoPrepend(msgs, new) ==
    [msgs EXCEPT ![Len(msgs)].message = new.message \o @]

MergeIntoReplace(msgs, new) ==
    [msgs EXCEPT ![Len(msgs)].message = new.message]

MergeIntoRestamp(msgs, new) ==
    [msgs EXCEPT ![Len(msgs)].message = @ \o new.message, ![Len(msgs)].time = new.time]

\* last_message.message.extend(new_message.message)
MergeInto(msgs, new) ==
    [msgs EXCEPT ![Len(msgs)].message = @ \o new.message]

NeedsEvictOff(s) == Len(s.messages) > s.max_histories

\* len(self.messages) >= self.max_histories
NeedsEvict(s) == Len(s.messages) >= s.max_histories

EvictNewest(msgs) == SubSeq(msgs, 1, Len(msgs) - 1)

\* self.messages.pop(0)
Evict(msgs) == Tail(msgs)

add_messageAnyEntry(s, m) ==
    LET same == {i \in 1..Len(s.messages) : Mergeable(s.messages[i], m)}
        at   == CHOOSE i \in same : \A j \in same : j <= i
    IN  IF same # {}
        THEN [s EXCEPT !.messages[at].message = @ \o m.message]
        ELSE [s EXCEPT !.messages =
                Append(IF NeedsEvict(s) THEN Evict(s.messages) ELSE s.messages, m)]

add_messageEvictFirst(s, m) ==
    LET kept == IF NeedsEvict(s) THEN Evict(s.messages) ELSE s.messages
    IN  IF kept # <<>> /\ Mergeable(Last(kept), m)
        THEN [s EXCEPT !.messages = MergeInto(kept, m)]
        ELSE [s EXCEPT !.messages = Append(kept, m)]

\* Session.add_message without the save: the new messages list
add_message(s, m) ==
    IF s.messages # <<>> /\ Mergeable(Last(s.messages), m)
    THEN [s EXCEPT !.messages = MergeInto(s.messages, m)]
    ELSE [s EXCEPT !.messages =
            Append(IF NeedsEvict(s) THEN Evict(s.messages) ELSE s.messages, m)]

-----------------------------------------------------------------------------
(* SessionManager *)

\* event.self_id, the bot's own account
SelfId == <<"int", 99>>

\* str(...) of an int
str(v) == <<"str", v[2]>>

\* str(event.self_id)
BotUserId == str(SelfId)

\* config_manager.character_name
CharacterName == 0

\* SessionManager.get_session: the reference, and the heap with a new object if needed
get_session_objs(type, id) ==
    IF sessions[id] = 0
    THEN Append(objs, NewSession(files, id, type, SelfId, DefaultMaxHistories))
    ELSE objs

get_session_ref(type, id) ==
    IF sessions[id] = 0 THEN Len(objs) + 1 ELSE sessions[id]

\* what a call of get_session found: the kind asked for, the reference the
\* manager held for the id (0: none), the history that object had, whether its
\* record was behind it, and the record a new Session would read
get_session_found(type, id) ==
    [asked  |-> type,
     had    |-> sessions[id],
     before |-> IF sessions[id] = 0 THEN <<>> ELSE objs[sessions[id]].messages,
     stale  |-> /\ sessions[id] # 0
                /\ files[FileKey(objs[sessions[id]])] # Session_to_dict(objs[sessions[id]]),
     rec    |-> files[<<type, id>>]]

get_session_ghost(type, id) ==
    IF sessions[id] = 0
    THEN LET loaded == load_session(files, type, id)
         IN  Append(ghost, [started_empty |-> loaded = <<>>,
                            log_valid     |-> loaded = <<>>,
                            log           |-> <<>>])
    ELSE ghost

\* get_session, then Session.add_message (merge or evict-and-append, then save)
StoreAddW(type, id, m, w) ==
    LET os  == get_session_objs(type, id)
        r   == get_session_ref(type, id)
        gs  == get_session_ghost(type, id)
        new == add_message(os[r], m)
    IN  /\ objs' = [os EXCEPT ![r] = new]
        /\ sessions' = [sessions EXCEPT ![id] = r]
        /\ files' = write_session(files, new, w)
        /\ ghost' = [gs EXCEPT ![r].log = Append(@, m)]
        /\ last_op' = [op |-> "add", id |-> id, ref |-> r, msg |-> m,
                       pre |-> os[r].messages, cap |-> os[r].max_histories,
                       kind |-> os[r].session_type,
                       found |-> get_session_found(type, id), write |-> w]

\* the same when the record is written
StoreAdd(type, id, m) == StoreAddW(type, id, m, "written")

\* SessionManager.add_message(event)
AddMessage(type, id, m) ==
    /\ nops < MaxOps
    /\ nops' = nops + 1
    /\ cm' = cm
    /\ StoreAdd(type, id, m)
    /\ UNCHANGED sched_vars

\* SessionManager.add_message(event) when _save_session fails
AddMessageWriteFails(type, id, m, w) ==
    /\ nops < MaxOps
    /\ w # "written"
    /\ nops' = nops + 1
    /\ cm' = cm
    /\ StoreAddW(type, id, m, w)
    /\ UNCHANGED sched_vars

clear_historyKeepLast(s) ==
    [s EXCEPT !.messages = IF Len(@) > 1 THEN <<Last(@)>> ELSE <<>>]

\* Session.clear_history without the save: self.messages.clear()
clear_history(s) == [s EXCEPT !.messages = <<>>]

\* get_session, then Session.clear_history
StoreClearW(type, id, w) ==
    LET os  == get_session_objs(type, id)
        r   == get_session_ref(type, id)
        gs  == get_session_ghost(type, id)
        new == clear_history(os[r])
    IN  /\ objs' = [os EXCEPT ![r] = new]
        /\ sessions' = [sessions EXCEPT ![id] = r]
        /\ files' = write_session(files, new, w)
        /\ ghost' = [gs EXCEPT ![r].log = <<>>, ![r].log_valid = TRUE]
        /\ last_op' = [op |-> "clear", id |-> id, ref |-> r, msg |-> <<>>,
                       pre |-> os[r].messages, cap |-> os[r].max_histories,
                       kind |-> os[r].session_type,
                       found |-> get_session_found(type, id), write |-> w]

StoreClear(type, id) == StoreClearW(type, id, "written")

\* handle_clear
HandleClear(type, id) ==
    /\ nops < MaxOps
    /\ nops' = nops + 1
    /\ cm' = cm
    /\ StoreClear(type, id)
    /\ UNCHANGED sched_vars

\* handle_clear when _save_session fails
HandleClearWriteFails(type, id, w) ==
    /\ nops < MaxOps
    /\ w # "written"
    /\ nops' = nops + 1
    /\ cm' = cm
    /\ StoreClearW(type, id, w)
    /\ UNCHANGED sched_vars

\* SessionManager.delete_session
StoreDelete(id) ==
    IF sessions[id] = 0
    THEN /\ UNCHANGED <<objs, sessions, files, ghost>>
         /\ last_op' = [op |-> "delete", id |-> id, ref |-> 0, msg |-> <<>>,
                        pre |-> <<>>, cap |-> 0, kind |-> ""]
    ELSE /\ sessions' = [sessions EXCEPT ![id] = 0]
         /\ files' = [files EXCEPT ![FileKey(objs[sessions[id]])] = NoFile]
         /\ UNCHANGED <<objs, ghost>>
         /\ last_op' = [op |-> "delete", id |-> id, ref |-> sessions[id], msg |-> <<>>,
                        pre |-> objs[sessions[id]].messages,
                        cap |-> objs[sessions[id]].max_histories,
                        kind |-> objs[sessions[id]].session_type]

DeleteSession(id) ==
    /\ nops < MaxOps
    /\ nops' = nops + 1
    /\ cm' = cm
    /\ StoreDelete(id)
    /\ UNCHANGED sched_vars

-----------------------------------------------------------------------------
(* The ConfigManager: app_settings.yaml, its backup, and threading.Lock *)

MaxCalls == 3

Threads == {1, 2}

\* what a file holds: "absent" (no file), "bad" (a configuration that fails
\* _validate_config), or a valid one ("default": DEFAULT_CONFIG, "v1", "v2")
Valid(c) == c \notin {"absent", "bad"}

\* the public calls: ConfigManager(), reload(), add_callback(), and a setter,
\* which ends with self._save_config(self._config)
Calls == {"init", "reload", "add_callback", "save"}

Frame(fn, pc) == [fn |-> fn, pc |-> pc]

\* a ConfigManager before __init__, with the two files as they are found
ConfigWith(c, b) ==
    [cfile |-> c, bfile |-> b, lock |-> 0, conf |-> "none", failed |-> FALSE,
     callbacks |-> 0, notified |-> <<>>, ncalls |-> 0,
     stack |-> [t \in Threads |-> <<>>], ret |-> [t \in Threads |-> ""]]

\* a ConfigManager whose __init__ has read a valid file
ConfigLoaded == [ConfigWith("v1", "absent") EXCEPT !.conf = "v1"]

Running(t) == cm.stack[t] # <<>>

Top(t) == cm.stack[t][Len(cm.stack[t])]

Pop(st) == SubSeq(st, 1, Len(st) - 1)

SetTop(st, pc) == [st EXCEPT ![Len(st)].pc = pc]

\* threading.Lock.acquire returns only when nobody holds the lock, the caller
\* included
LockFree(t) == cm.lock = 0

\* a thread calls a method of the manager; there is no manager to call before
\* __init__ has returned
CmCall(t, fn) ==
    /\ ~Running(t)
    /\ cm.ncalls < MaxCalls
    /\ IF fn = "init"
       THEN cm.conf = "none" /\ ~cm.failed /\ \A u \in Threads : ~Running(u)
       ELSE cm.conf # "none"
    /\ cm' = [cm EXCEPT !.ncalls = @ + 1,
                        !.ret[t] = "",
                        !.stack[t] = IF fn = "init"
                                     THEN <<Frame("init", "loading"), Frame("load", "check")>>
                                     ELSE <<Frame(fn, "acquire")>>]
    /\ UNCHANGED <<store_vars, sched_vars>>

\* _load_or_create_config before the lock: the file is restored from the backup
\* when there is a backup and no file
CmRestore(t) ==
    /\ Running(t)
    /\ Top(t) = Frame("load", "check")
    /\ cm' = [cm EXCEPT !.cfile = IF cm.cfile = "absent" /\ cm.bfile # "absent"
                                  THEN cm.bfile ELSE @,
                        !.stack[t] = SetTop(@, "acquire")]
    /\ UNCHANGED <<store_vars, sched_vars>>

\* with self._lock: the thread gets the lock
CmAcquire(t) ==
    /\ Running(t)
    /\ Top(t).pc = "acquire"
    /\ LockFree(t)
    /\ cm' = [cm EXCEPT !.lock = t, !.stack[t] = SetTop(@, "locked")]
    /\ UNCHANGED <<store_vars, sched_vars>>

\* the body of a with block, up to the call it makes or to its end, where the
\* lock is released
CmLocked(t) ==
    /\ Running(t)
    /\ Top(t).pc = "locked"
    /\ LET st == cm.stack[t]
           fn == Top(t).fn
       IN  cm' =
             IF fn = "load"
             THEN IF cm.cfile = "absent"
                  THEN \* self._save_config(self.DEFAULT_CONFIG)
                       [cm EXCEPT !.stack[t] = Append(SetTop(st, "created"),
                                                      Frame("save", "acquire"))]
                  ELSE IF Valid(cm.cfile)
                  THEN \* return config
                       [cm EXCEPT !.lock = 0, !.ret[t] = cm.cfile, !.stack[t] = Pop(st)]
                  ELSE IF cm.bfile # "absent"
                  THEN \* return self._load_or_create_config()
                       [cm EXCEPT !.stack[t] = Append(SetTop(st, "recursed"),
                                                      Frame("load", "check"))]
                  ELSE \* raise
                       [cm EXCEPT !.lock = 0, !.ret[t] = "error", !.stack[t] = Pop(st)]
             ELSE IF fn = "save"
             THEN \* copy the file to the backup, then write the file
                  [cm EXCEPT !.bfile = IF cm.cfile # "absent" THEN cm.cfile ELSE @,
                             !.cfile = IF cm.conf = "none" THEN "default" ELSE cm.conf,
                             !.lock = 0, !.ret[t] = "", !.stack[t] = Pop(st)]
             ELSE IF fn = "reload"
             THEN \* self._config = self._load_or_create_config()
                  [cm EXCEPT !.stack[t] = Append(SetTop(st, "loaded"),
                                                 Frame("load", "check"))]
             ELSE IF fn = "notify"
             THEN \* for callback in self._callbacks: callback(self._config)
                  [cm EXCEPT !.notified = Append(@, [conf |-> cm.conf, n |-> cm.callbacks]),
                             !.lock = 0, !.ret[t] = "", !.stack[t] = Pop(st)]
             ELSE \* add_callback: self._callbacks.append(callback)
                  [cm EXCEPT !.callbacks = @ + 1,
                             !.lock = 0, !.ret[t] = "", !.stack[t] = Pop(st)]
    /\ UNCHANGED <<store_vars, sched_vars>>

\* the call a method made has returned or raised, and the method goes on
CmResume(t) ==
    /\ Running(t)
    /\ Top(t).pc \in {"loading", "created", "recursed", "loaded", "notified"}
    /\ LET st == cm.stack[t]
           f  == Top(t)
           r  == cm.ret[t]
       IN  cm' =
             IF f.pc = "loading"
             THEN \* __init__: self._config = ..., self._callbacks = []
                  IF r = "error"
                  THEN [cm EXCEPT !.failed = TRUE, !.stack[t] = Pop(st)]
                  ELSE [cm EXCEPT !.conf = r, !.callbacks = 0, !.stack[t] = Pop(st)]
             ELSE IF f.pc = "created"
             THEN \* return copy.deepcopy(self.DEFAULT_CONFIG)
                  [cm EXCEPT !.lock = 0, !.ret[t] = "default", !.stack[t] = Pop(st)]
             ELSE IF f.pc = "recursed"
             THEN [cm EXCEPT !.lock = 0, !.stack[t] = Pop(st)]
             ELSE IF f.pc = "loaded"
             THEN IF r = "error"
                  THEN [cm EXCEPT !.lock = 0, !.stack[t] = Pop(st)]
                  ELSE \* self._notify_callbacks()
                       [cm EXCEPT !.conf = r,
                                  !.stack[t] = Append(SetTop(st, "notified"),
                                                      Frame("notify", "acquire"))]
             ELSE [cm EXCEPT !.lock = 0, !.ret[t] = "", !.stack[t] = Pop(st)]
    /\ UNCHANGED <<store_vars, sched_vars>>

\* somebody edits, damages or removes app_settings.yaml
CmEdit(c) ==
    /\ cm.ncalls < MaxCalls
    /\ cm.conf # "none"
    /\ cm' = [cm EXCEPT !.ncalls = @ + 1, !.cfile = c]
    /\ UNCHANGED <<store_vars, sched_vars>>

-----------------------------------------------------------------------------
(* Start-up: SessionManager._load_all_sessions over the records found *)

Users == {1, 2}
UserId(u) == <<"int", u>>

\* A text is kept as its length, split into leading blanks, the stripped core and
\* trailing blanks, and a tag that tells one text from another.
Text(lead, len, trail, tag) == [lead |-> lead, len |-> len, trail |-> trail, tag |-> tag]

\* SimpleMessage(event, event.time) of an event with one text segment
Msg(u, t, c) ==
    [user_name |-> u, user_id |-> UserId(u), time |-> t,
     message |-> <<TextContent(Text(0, 1, 0, c))>>]

\* None, which is neither a str nor a dict
None == [none |-> TRUE]

\* a MessageSegment of an event: type "text" with data {"text": ...}, or type
\* "image" with data {"url": ..., "summary": ...}
TextSegment(text) == [type |-> "text", data |-> [text |-> text]]
ImageSegment(data) == [type |-> "image", data |-> data]

\* SimpleMessage._from_message raises on the segment: segment.data["url"] is
\* missing (KeyError), or the SimpleMessageContent cannot be constructed
Segment_raises(seg) ==
    IF seg.type = "text" THEN ContentRaises("text", seg.data.text)
    ELSE \/ "url" \notin DOMAIN seg.data
         \/ ContentRaises("image_url", [url |-> seg.data.url, detail |-> seg.data.summary])

\* the SimpleMessageContent that _from_message makes of a segment
Segment_content(seg) ==
    IF seg.type = "text" THEN TextContent(seg.data.text)
    ELSE ImageContent(seg.data.url, seg.data.summary)

\* SimpleMessage(event, event.time) raises
SimpleMessage_raises(segs) == \E i \in 1..Len(segs) : Segment_raises(segs[i])

\* SimpleMessage(event, event.time)
SimpleMessage(u, t, segs) ==
    [user_name |-> u, user_id |-> UserId(u), time |-> t,
     message |-> MapSeq(Segment_content, segs)]

\* SessionManager.add_message(event): get_session, then Session.add_message, which
\* constructs the SimpleMessage first; an exception of the construction is caught
\* and logged by the manager, with nothing done but get_session
StoreAddEvent(type, id, u, t, segs) ==
    IF SimpleMessage_raises(segs)
    THEN LET os == get_session_objs(type, id)
             r  == get_session_ref(type, id)
         IN  /\ objs' = os
             /\ sessions' = [sessions EXCEPT ![id] = r]
             /\ ghost' = get_session_ghost(type, id)
             /\ files' = files
             /\ last_op' = [op |-> "reject", id |-> id, ref |-> r, msg |-> <<>>,
                            pre |-> os[r].messages, cap |-> os[r].max_histories,
                            kind |-> os[r].session_type,
                            found |-> get_session_found(type, id), write |-> "none"]
    ELSE StoreAdd(type, id, SimpleMessage(u, t, segs))

AddEvent(type, id, u, t, segs) ==
    /\ nops < MaxOps
    /\ nops' = nops + 1
    /\ cm' = cm
    /\ StoreAddEvent(type, id, u, t, segs)
    /\ UNCHANGED sched_vars

EmptyRecord(type, id, max) ==
    [session_id |-> id, session_type |-> type, self_id |-> SelfId,
     max_histories |-> max, messages |-> <<>>]

\* a record holding more entries than its max_histories
LongRecord(type, id, max) ==
    [EmptyRecord(type, id, max) EXCEPT !.messages =
        [i \in 1..(max + 1) |->
            SimpleMessage_to_dict(Msg((i % 2) + 1, T0 - 1000 * (max + 2 - i), 0))]]

\* a record written before self_id was part of the format
OldRecord(type, id, max) ==
    [session_id |-> id, session_type |-> type, max_histories |-> max,
     messages |-> LongRecord(type, id, max).messages]

\* a record one of whose messages has a time that is neither str nor int
BrokenRecord(type, id, max) ==
    [LongRecord(type, id, max) EXCEPT !.messages[1].time = <<"float", 0>>]

NoFiles == [k \in Kinds \X Ids |-> NoFile]

StartFiles ==
    { NoFiles,
      [NoFiles EXCEPT ![<<"private", 1>>] = EmptyRecord("private", 1, 1)],
      [NoFiles EXCEPT ![<<"group", 1>>] = EmptyRecord("group", 1, 2)],
      [NoFiles EXCEPT ![<<"private", 1>>] = LongRecord("private", 1, 2)],
      [NoFiles EXCEPT ![<<"private", 1>>] = EmptyRecord("private", 1, 2),
                      ![<<"group", 1>>] = EmptyRecord("group", 1, 1)],
      [NoFiles EXCEPT ![<<"private", 1>>] = LongRecord("private", 1, 1),
                      ![<<"group", 1>>] = EmptyRecord("group", 1, 2)],
      [NoFiles EXCEPT ![<<"private", 1>>] = Unreadable,
                      ![<<"group", 2>>] = LongRecord("group", 2, 2)],
      [NoFiles EXCEPT ![<<"group", 1>>] = OldRecord("group", 1, 2)],
      [NoFiles EXCEPT ![<<"private", 1>>] = BrokenRecord("private", 1, 2)] }

\* the ids some record names
RecordIds(fs) == {id \in Ids : \E k \in Kinds : fs[<<k, id>>] # NoFile}

\* the files of the glob whose try block in _load_all_sessions does not raise
LoadAllRead(fs, order) ==
    LET ok(k) == ~Session_from_dictRaises(fs[k])
    IN  SelectSeq(order, ok)

\* _load_all_sessions: every record that can be read becomes a Session, the others
\* are logged and skipped; sessions is keyed by the id alone, so of two records
\* with one id the one globbed last stays
LoadAll(fs, order) ==
    LET ids  == RecordIds(fs)
        seq  == LoadAllRead(fs, order)
        obj(i) == Session_from_dict(fs, fs[seq[i]])
    IN  [objs |-> [i \in 1..Len(seq) |-> obj(i)],
         sessions |-> [id \in Ids |->
            IF \E i \in 1..Len(seq) : seq[i][2] = id
            THEN CHOOSE i \in 1..Len(seq) :
                    /\ seq[i][2] = id
                    /\ \A j \in 1..Len(seq) : seq[j][2] = id => j <= i
            ELSE 0]]

\* the orders in which glob may yield the records
GlobOrders(fs) ==
    LET keys == {k \in Kinds \X Ids : fs[k] # NoFile}
    IN  {s \in UNION {[1..n -> keys] : n \in {Cardinality(keys)}} :
            \A i, j \in 1..Len(s) : i # j => s[i] # s[j]}

InitStoreWith(fs, order) ==
    LET l == LoadAll(fs, order)
    IN  /\ files = fs
        /\ objs = l.objs
        /\ sessions = l.sessions
        /\ ghost = [i \in 1..Len(l.objs) |->
                      [started_empty |-> l.objs[i].messages = <<>>,
                       log_valid     |-> l.objs[i].messages = <<>>,
                       log           |-> <<>>]]
        /\ last_op = [op |-> "init", id |-> 0, ref |-> 0, msg |-> <<>>,
                      pre |-> <<>>, cap |-> 0, kind |-> ""]
        /\ nops = 0

\* SessionState.__init__, and nothing scheduled or sent yet
InitSched ==
    /\ now = 0
    /\ last_message_time = [id \in Ids |-> 0]
    /\ pending_sessions = {}
    /\ tasks = <<>>
    /\ outbox = <<>>
    /\ acts = [id \in Ids |-> <<>>]
    /\ nevents = 0
    /\ cm = ConfigLoaded

InitStore ==
    /\ \E fs \in StartFiles : \E order \in GlobOrders(fs) : InitStoreWith(fs, order)
    /\ InitSched

\* the timestamps of the store's inputs: equal, 180 s apart, 181 s apart
Times == {T0, T0 + MergeWindow, T0 + MergeWindow + 1}

StoreId == CHOOSE id \in Ids : \A other \in Ids : id <= other

NextStore ==
    \/ \E u \in Users, t \in Times : AddMessage("group", StoreId, Msg(u, t, nops + 1))
    \/ \E t \in Times : AddMessage("private", StoreId, Msg(StoreId, t, nops + 1))
    \/ \E k \in Kinds : HandleClear(k, StoreId)
    \/ DeleteSession(StoreId)

SpecStore == InitStore /\ [][NextStore]_vars

-----------------------------------------------------------------------------
(* The store of one group conversation when things go wrong: writes of the
   record that fail, and events whose content cannot be constructed. The
   conversation starts without a record or with one that holds a history. *)

FaultStartFiles ==
    { NoFiles,
      [NoFiles EXCEPT ![<<"group", StoreId>>] = LongRecord("group", StoreId, 2)] }

InitFaults ==
    /\ \E fs \in FaultStartFiles : \E order \in GlobOrders(fs) : InitStoreWith(fs, order)
    /\ InitSched

\* the segments of the events: an image, a text that is not a str, an image
\* without url, and a text followed by an image without url
EventSegments ==
    { <<ImageSegment([url |-> 1, summary |-> 0])>>,
      <<TextSegment(None)>>,
      <<ImageSegment([summary |-> 0])>>,
      <<TextSegment(Text(0, 1, 0, 1)), ImageSegment([summary |-> 0])>> }

NextFaults ==
    \/ \E u \in Users : AddMessage("group", StoreId, Msg(u, T0, nops + 1))
    \/ HandleClear("group", StoreId)
    \/ \E u \in Users, w \in WriteOutcomes :
          AddMessageWriteFails("group", StoreId, Msg(u, T0, nops + 1), w)
    \/ \E w \in WriteOutcomes : HandleClearWriteFails("group", StoreId, w)
    \/ \E segs \in EventSegments : AddEvent("group", StoreId, StoreId, T0, segs)

SpecFaults == InitFaults /\ [][NextFaults]_vars

-----------------------------------------------------------------------------
(* Saving and loading on their own: a conversation with any history of up to
   two entries, of text and image content, with timestamps on both sides of the
   change of the local time zone, is saved and constructed again from its
   record, as a restart of the process does. *)

RoundTripTimes ==
    {T0, FallBack - 3600, FallBack - 1, FallBack, FallBack + 1800, FallBack + 3600}

RoundTripContents ==
    { <<TextContent(Text(0, 1, 0, 1))>>,
      <<ImageContent(1, 0)>>,
      <<TextContent(Text(1, 2, 1, 2)), ImageContent(2, 1)>> }

RoundTripMessages ==
    { [user_name |-> w[1], user_id |-> w[2], time |-> t, message |-> c] :
        w \in {<<1, UserId(1)>>, <<CharacterName, BotUserId>>},
        t \in RoundTripTimes, c \in RoundTripContents }

\* the histories add_message can leave: neighbours are not mergeable
RoundTripHistories ==
    {<<>>} \cup { <<m>> : m \in RoundTripMessages }
           \cup { <<m[1], m[2]>> : m \in {p \in RoundTripMessages \X RoundTripMessages :
                                             ~Mergeable(p[1], p[2])} }

InitRoundTrip ==
    /\ \E h \in RoundTripHistories :
          /\ objs = <<[NewSession(NoFiles, StoreId, "private", SelfId, DefaultMaxHistories)
                          EXCEPT !.messages = h]>>
          /\ ghost = <<[started_empty |-> h = <<>>, log_valid |-> h = <<>>, log |-> <<>>]>>
    /\ sessions = [id \in Ids |-> IF id = StoreId THEN 1 ELSE 0]
    /\ files = NoFiles
    /\ last_op = [op |-> "init", id |-> 0, ref |-> 0, msg |-> <<>>,
                  pre |-> <<>>, cap |-> 0, kind |-> ""]
    /\ nops = 0
    /\ InitSched

\* Session._save_session of the conversation in memory
SaveSession(id) ==
    /\ nops < MaxOps
    /\ sessions[id] # 0
    /\ nops' = nops + 1
    /\ cm' = cm
    /\ files' = save_session(files, objs[sessions[id]])
    /\ last_op' = [op |-> "save", id |-> id, ref |-> sessions[id], msg |-> <<>>,
                   pre |-> objs[sessions[id]].messages,
                   cap |-> objs[sessions[id]].max_histories,
                   kind |-> objs[sessions[id]].session_type]
    /\ UNCHANGED <<objs, sessions, ghost, sched_vars>>

\* the conversation is constructed anew from its record and takes the place of
\* the one in memory
Reloaded(id, new) ==
    /\ nops' = nops + 1
    /\ cm' = cm
    /\ objs' = Append(objs, new)
    /\ sessions' = [sessions EXCEPT ![id] = Len(objs) + 1]
    /\ ghost' = Append(ghost, [started_empty |-> new.messages = <<>>,
                               log_valid |-> new.messages = <<>>, log |-> <<>>])
    /\ last_op' = [op |-> "load", id |-> id, ref |-> Len(objs) + 1, msg |-> <<>>,
                   pre |-> objs[sessions[id]].messages,
                   cap |-> objs[sessions[id]].max_histories,
                   kind |-> objs[sessions[id]].session_type]
    /\ UNCHANGED <<files, sched_vars>>

\* SessionManager.get_session after a restart: Session.__init__, _load_session
LoadSession(id) ==
    /\ nops < MaxOps
    /\ sessions[id] # 0
    /\ files[FileKey(objs[sessions[id]])] = Session_to_dict(objs[sessions[id]])
    /\ Reloaded(id, NewSession(files, id, objs[sessions[id]].session_type, SelfId,
                               DefaultMaxHistories))

\* SessionManager._load_all_sessions after a restart: Session.from_dict
LoadFromDict(id) ==
    /\ nops < MaxOps
    /\ sessions[id] # 0
    /\ files[FileKey(objs[sessions[id]])] = Session_to_dict(objs[sessions[id]])
    /\ Reloaded(id, Session_from_dict(files, files[FileKey(objs[sessions[id]])]))

NextRoundTrip ==
    \/ SaveSession(StoreId)
    \/ LoadSession(StoreId)
    \/ LoadFromDict(StoreId)

SpecRoundTrip == InitRoundTrip /\ [][NextRoundTrip]_vars

-----------------------------------------------------------------------------
(* Claims about the history store, checked under SpecStore *)

Live == {r \in 1..Len(objs) : \E id \in Ids : sessions[id] = r}

LastOpMerged ==
    /\ last_op.op = "add"
    /\ last_op.pre # <<>>
    /\ Last(last_op.pre).user_id = last_op.msg.user_id
    /\ Abs(Last(last_op.pre).time - last_op.msg.time) <= MergeWindow

\* C4: a conversation that starts empty holds at most max_histories entries after
\* every add_message and clear_history, merging or not.
C4_BoundedFromEmpty ==
    \A r \in 1..Len(objs) :
        ghost[r].started_empty => Len(objs[r].messages) <= objs[r].max_histories

\* an append on a full conversation that started empty has just evicted
C4_Witness ==
    /\ last_op.op = "add"
    /\ ~LastOpMerged
    /\ ghost[last_op.ref].started_empty
    /\ Len(last_op.pre) = last_op.cap
    /\ Len(objs[last_op.ref].messages) = last_op.cap

\* C5: every conversation holds at most max_histories entries in every state, also
\* one loaded from a record that holds more entries than max_histories.
C5_AlwaysBounded ==
    \A r \in Live : Len(objs[r].messages) <= objs[r].max_histories

\* C6: same sender and timestamps at most 180 s apart: no new entry, the last
\* entry's content is the old content followed by the new; otherwise a new entry.
C6_MergeRule ==
    last_op.op = "add" =>
        LET pre == last_op.pre
            m   == last_op.msg
            cur == objs[last_op.ref].messages
        IN  IF /\ pre # <<>>
               /\ Last(pre).user_id = m.user_id
               /\ Abs(Last(pre).time - m.time) <= 180
            THEN /\ Len(cur) = Len(pre)
                 /\ Last(cur).message = Last(pre).message \o m.message
                 /\ \A i \in 1..(Len(pre) - 1) : cur[i] = pre[i]
            ELSE /\ Last(cur) = m
                 /\ \/ SubSeq(cur, 1, Len(cur) - 1) = pre
                    \/ pre # <<>> /\ SubSeq(cur, 1, Len(cur) - 1) = Tail(pre)

\* a merge of two messages exactly 180 s apart
C6_Witness ==
    /\ last_op.op = "add"
    /\ last_op.pre # <<>>
    /\ Last(last_op.pre).user_id = last_op.msg.user_id
    /\ Abs(Last(last_op.pre).time - last_op.msg.time) = 180
    /\ Len(objs[last_op.ref].messages) = Len(last_op.pre)
    /\ Len(Last(objs[last_op.ref].messages).message) >= 2

PairwiseNonMergeable(log) ==
    \A i, j \in 1..Len(log) :
        i < j => ~(/\ log[i].user_id = log[j].user_id
                   /\ Abs(log[i].time - log[j].time) <= 180)

LastK(s, k) == IF Len(s) <= k THEN s ELSE SubSeq(s, Len(s) - k + 1, Len(s))

\* C7: n > C pairwise non-mergeable messages appended to an empty conversation of
\* capacity C leave exactly the last C in order; a non-merging append at full
\* capacity removes the entry at index 0 and nothing else.
C7_FifoEviction ==
    /\ \A r \in 1..Len(objs) :
          (ghost[r].log_valid /\ PairwiseNonMergeable(ghost[r].log))
             => objs[r].messages = LastK(ghost[r].log, objs[r].max_histories)
    /\ (last_op.op = "add" /\ ~LastOpMerged /\ Len(last_op.pre) = last_op.cap)
          => objs[last_op.ref].messages = Append(Tail(last_op.pre), last_op.msg)

\* more pairwise non-mergeable messages than the capacity have been appended
C7_Witness ==
    /\ last_op.op = "add"
    /\ ghost[last_op.ref].log_valid
    /\ PairwiseNonMergeable(ghost[last_op.ref].log)
    /\ Len(ghost[last_op.ref].log) > objs[last_op.ref].max_histories
    /\ objs[last_op.ref].max_histories >= 2

-----------------------------------------------------------------------------
(* The admission scheduler: handle_all_message and delayed_llm_query *)

MaxEvents == 3
MaxTasks == 2
MaxSeconds == 11

TicksPerSecond == 60
PollInterval == 5
QuietThreshold == 3
MaxAttempts == 3
RetryWaitMin == 2
DelayFloor == 45
DelayCeiling == 90

Sec(n) == n * TicksPerSecond

\* event.time and datetime.now(): the wall clock, in whole seconds
Wall(t) == T0 + (t \div TicksPerSecond)

\* An inbound event: its kind, the session id (group_id, or the user_id of a private
\* chat), the sender, whether raw_message starts with a command prefix, whether the
\* black/white lists let it pass, whether it is to the bot or names it.
Event(kind, id, user, cmd, listed, tome) ==
    [kind |-> kind, id |-> id, user |-> user, cmd |-> cmd, listed |-> listed, tome |-> tome]

check_access(ev) == ~ev.cmd /\ ev.listed

check_mention(ev) ==
    /\ check_access(ev)
    /\ (ev.kind = "private" \/ ev.tome)

update_timeNot(id) == last_message_time

\* SessionState.update_time
update_time(id) == [last_message_time EXCEPT ![id] = now]

\* the message of the event being handled: one text, told from the others by
\* the number of the event
TriggerMessage(ev) == Msg(ev.user, Wall(now), nevents + 1)

\* the history ends with the content of the message of the event being handled
TriggerIn(h) ==
    /\ h # <<>>
    /\ Last(Last(h).message) = TextContent(Text(0, 1, 0, nevents + 1))

\* asyncio.create_task(delayed_llm_query(event, session, matcher)): a task that
\* has not run yet; the history of the Session it is given is that after
\* session.add_message(event)
NewTask(ev, ref) ==
    [sid |-> ev.id, kind |-> ev.kind, sess |-> ref, pc |-> "created", wake |-> 0,
     attempts |-> 0, query_input |-> <<>>, parts |-> <<>>, idx |-> 0, exit |-> "",
     admit_at |-> now, fire_at |-> -1, fired_acts |-> <<>>,
     store_at_build |-> <<>>, store_has |-> FALSE, nsent |-> 0,
     answered_at |-> -1, response |-> <<>>, began |-> -1, at |-> "",
     recorded |-> FALSE, record |-> <<>>,
     has_trigger |-> TriggerIn(objs'[ref].messages),
     built_acts |-> <<>>, exit_acts |-> <<>>]

InFlight(t) == t.pc # "done"

AdmitsWhilePending(ev) == check_mention(ev)

\* check_mention(event) and not session_state.is_pending(session_id)
Admits(ev) == check_mention(ev) /\ ev.id \notin pending_sessions

\* handle_all_message: one run of the handler, which never suspends
HandleAllMessage(ev) ==
    /\ nevents < MaxEvents
    /\ IF ~check_access(ev)
       THEN UNCHANGED vars
       ELSE /\ nevents' = nevents + 1
            /\ StoreAdd(ev.kind, ev.id, TriggerMessage(ev))
            /\ last_message_time' = update_time(ev.id)
            /\ acts' = [acts EXCEPT ![ev.id] =
                           Append(@, [t |-> now, qual |-> check_mention(ev)])]
            /\ IF Admits(ev)
               THEN /\ Len(tasks) < MaxTasks
                    /\ tasks' = Append(tasks, NewTask(ev, get_session_ref(ev.kind, ev.id)))
               ELSE UNCHANGED tasks
            /\ UNCHANGED <<cm, nops, now, pending_sessions, outbox>>

\* handle_clear, while the scheduler runs
ClearCommand(ev) ==
    /\ nevents < MaxEvents
    /\ nevents' = nevents + 1
    /\ StoreClear(ev.kind, ev.id)
    /\ UNCHANGED <<cm, nops, now, last_message_time, pending_sessions, tasks, outbox, acts>>

\* SessionManager.delete_session, while the scheduler runs
DeleteCall(id) ==
    /\ nevents < MaxEvents
    /\ nevents' = nevents + 1
    /\ StoreDelete(id)
    /\ UNCHANGED <<cm, nops, now, last_message_time, pending_sessions, tasks, outbox, acts>>

\* the finally block of delayed_llm_query: remove_pending, and the task is over
\* the task is over: how it left, and where it was
Exited(t, how) ==
    [t EXCEPT !.pc = "done", !.exit = how, !.at = t.pc, !.exit_acts = acts[t.sid]]

ExitLeak(i, how) ==
    /\ tasks' = [tasks EXCEPT ![i] = Exited(@, how)]
    /\ UNCHANGED pending_sessions

CycleExit(i, how) ==
    /\ tasks' = [tasks EXCEPT ![i] = Exited(@, how)]
    /\ pending_sessions' = pending_sessions \ {tasks[i].sid}

\* the first step of the task: add_pending, update_time, then the first sleep
TaskStart(i) ==
    /\ tasks[i].pc = "created"
    /\ pending_sessions' = pending_sessions \cup {tasks[i].sid}
    /\ last_message_time' = update_time(tasks[i].sid)
    /\ tasks' = [tasks EXCEPT ![i].pc = "sleep", ![i].wake = now + Sec(PollInterval)]
    /\ UNCHANGED <<cm, store_vars, now, outbox, acts, nevents>>

QuietElapsedEarly(id) == now - last_message_time[id] >= 0

QuietElapsedNever(id) == FALSE

\* asyncio.get_event_loop().time() - last_message_time[session_id] >= 3
QuietElapsed(id) == now - last_message_time[id] >= Sec(QuietThreshold)

\* QueryBuilder.build_request(session): the history of the Session the task holds
BuildPayload(t) == objs[t.sess].messages

\* the store's history for the task's session id, when it has one
StoreHistory(t) ==
    IF sessions[t.sid] = 0 THEN <<>> ELSE objs[sessions[t.sid]].messages

\* asyncio.sleep(5) is over: leave the loop and call handle_llm_query, whose
\* first step builds the request, or sleep again
TaskWake(i) ==
    /\ tasks[i].pc = "sleep"
    /\ now >= tasks[i].wake
    /\ IF QuietElapsed(tasks[i].sid)
       THEN tasks' = [tasks EXCEPT ![i].pc = "query",
                                   ![i].attempts = 1,
                                   ![i].query_input = BuildPayload(tasks[i]),
                                   ![i].fire_at = now,
                                   ![i].fired_acts = acts[tasks[i].sid],
                                   ![i].built_acts = acts[tasks[i].sid],
                                   ![i].store_at_build = StoreHistory(tasks[i]),
                                   ![i].store_has = sessions[tasks[i].sid] # 0]
       ELSE tasks' = [tasks EXCEPT ![i].wake = now + Sec(PollInterval)]
    /\ UNCHANGED <<cm, store_vars, now, last_message_time, pending_sessions, outbox, acts, nevents>>

BlankOnlyEmpty(line) == line.lead + line.len + line.trail = 0

\* not line.strip(): nothing but whitespace
Blank(line) == line.len = 0

\* line.strip()
strip(line) == [line EXCEPT !.lead = 0, !.trail = 0]

RECURSIVE NonBlankStripped(_)
NonBlankStripped(lines) ==
    IF lines = <<>> THEN <<>>
    ELSE IF Blank(lines[1]) THEN NonBlankStripped(Tail(lines))
         ELSE <<strip(lines[1])>> \o NonBlankStripped(Tail(lines))

\* [line.strip() for line in response.split('\n') if line.strip()]; a response is
\* kept as its lines, the empty string as no line at all
split_lines(response) == NonBlankStripped(response)

\* what chat_completion may give: nothing (None or ""), or a text
Responses ==
    { <<>>,
      <<Text(1, 0, 0, 0)>>,
      <<Text(0, 2, 0, 101)>>,
      <<Text(0, 2, 1, 101), Text(0, 0, 0, 0), Text(0, 90, 0, 102)>> }

\* handle_llm_query returned an empty list (return, then finally), or the parts,
\* of which the first is sent at once
AfterQuery(i, response) ==
    LET parts == split_lines(response)
        t     == [tasks[i] EXCEPT !.answered_at = now, !.response = response]
    IN  IF parts = <<>>
        THEN /\ tasks' = [tasks EXCEPT ![i] = Exited(t, "empty")]
             /\ pending_sessions' = pending_sessions \ {t.sid}
        ELSE /\ tasks' = [tasks EXCEPT ![i] =
                             [t EXCEPT !.pc = "send", !.parts = parts, !.idx = 1,
                                       !.began = now]]
             /\ UNCHANGED pending_sessions

\* the request ends with a response
QueryReturn(i, response) ==
    /\ tasks[i].pc = "query"
    /\ AfterQuery(i, response)
    /\ UNCHANGED <<cm, store_vars, now, last_message_time, outbox, acts, nevents>>

\* the request ends with a ClientError or a timeout, which tenacity retries
\* (stop_after_attempt(3), wait_exponential(min=2)); after the last attempt
\* handle_llm_query catches the RetryError and returns an empty list.  A request
\* that fails counts once as a fault of the environment.
QueryError(i) ==
    /\ tasks[i].pc = "query"
    /\ IF tasks[i].attempts = 1
       THEN nevents < MaxEvents /\ nevents' = nevents + 1
       ELSE UNCHANGED nevents
    /\ IF tasks[i].attempts < MaxAttempts
       THEN /\ tasks' = [tasks EXCEPT ![i].pc = "retry_wait",
                                      ![i].wake = now + Sec(RetryWaitMin)]
            /\ UNCHANGED pending_sessions
       ELSE CycleExit(i, "empty")
    /\ UNCHANGED <<cm, store_vars, now, last_message_time, outbox, acts>>

\* the retry: chat_completion runs again and builds the request again
RetryWake(i) ==
    /\ tasks[i].pc = "retry_wait"
    /\ now >= tasks[i].wake
    /\ tasks' = [tasks EXCEPT ![i].pc = "query",
                              ![i].attempts = @ + 1,
                              ![i].query_input = BuildPayload(tasks[i]),
                              ![i].built_acts = acts[tasks[i].sid],
                              ![i].store_at_build = StoreHistory(tasks[i]),
                              ![i].store_has = sessions[tasks[i].sid] # 0]
    /\ UNCHANGED <<cm, store_vars, now, last_message_time, pending_sessions, outbox, acts, nevents>>

TextLen(line) == line.lead + line.len + line.trail

Max(a, b) == IF a >= b THEN a ELSE b
Min(a, b) == IF a <= b THEN a ELSE b

DelayUnclamped(msg) == TextLen(msg)

\* max(0.75, min(1.5, len(msg) / 60)), in ticks of 1/60 s
Delay(msg) == Max(DelayFloor, Min(DelayCeiling, TextLen(msg)))

\* {"type": "text", "text": msg}
TextDict(msg) == [k \in {"type", "text"} |-> IF k = "type" THEN "text" ELSE msg]

\* SimpleMessage.from_dict of the reply: user_id is str(event.self_id)
BotMessageAt(t, parts) ==
    SimpleMessage_from_dict(
        [user_name |-> CharacterName, user_id |-> BotUserId,
         time |-> strftime(t), message |-> MapSeq(TextDict, parts)])

\* the same with datetime.now() read off the model's clock
BotMessage(parts) == BotMessageAt(Wall(now), parts)

add_self_messageCreates(id, m) == StoreAdd("group", id, m)

\* SessionManager.add_self_message
add_self_message(id, m) ==
    IF sessions[id] = 0
    THEN UNCHANGED <<objs, sessions, files, ghost, last_op>>
    ELSE StoreAdd(objs[sessions[id]].session_type, id, m)

CurrentPartReversed(t) == t.parts[Len(t.parts) + 1 - t.idx]

\* first_msg = messages[0], then msg of the loop over messages[1:]
CurrentPart(t) == t.parts[t.idx]

\* what matcher.send delivered, when the call began and when it returned
Sent(i) == [task |-> i, part |-> CurrentPart(tasks[i]), began |-> tasks[i].began, done |-> now]

MorePartsNever(t) == FALSE

\* the first send and the loop over messages[1:] have parts left to send
MoreParts(t) == t.idx < Len(t.parts)

\* matcher.send returned: sleep before the next part, or record the reply and finish
SendDone(i) ==
    /\ tasks[i].pc = "send"
    /\ outbox' = Append(outbox, Sent(i))
    /\ IF MoreParts(tasks[i])
       THEN /\ tasks' = [tasks EXCEPT ![i].pc = "delay",
                                      ![i].idx = @ + 1,
                                      ![i].nsent = @ + 1,
                                      ![i].wake = now + Delay(tasks[i].parts[tasks[i].idx + 1])]
            /\ UNCHANGED <<pending_sessions, objs, sessions, files, ghost, last_op>>
       ELSE /\ add_self_message(tasks[i].sid, BotMessage(tasks[i].parts))
            /\ tasks' = [tasks EXCEPT ![i] =
                            [Exited(@, "success") EXCEPT
                                !.nsent = @ + 1,
                                !.recorded = sessions[tasks[i].sid] # 0,
                                !.record = IF sessions[tasks[i].sid] # 0
                                           THEN <<BotMessage(tasks[i].parts)>> ELSE <<>>]]
            /\ pending_sessions' = pending_sessions \ {tasks[i].sid}
    /\ UNCHANGED <<cm, nops, now, last_message_time, acts, nevents>>

\* matcher.send raised (a fault of the environment): except Exception, then finally
SendFail(i) ==
    /\ nevents < MaxEvents
    /\ nevents' = nevents + 1
    /\ tasks[i].pc = "send"
    /\ CycleExit(i, "error")
    /\ UNCHANGED <<cm, store_vars, now, last_message_time, outbox, acts>>

\* asyncio.sleep(delay) is over
DelayWake(i) ==
    /\ tasks[i].pc = "delay"
    /\ now >= tasks[i].wake
    /\ tasks' = [tasks EXCEPT ![i].pc = "send", ![i].began = now]
    /\ UNCHANGED <<cm, store_vars, now, last_message_time, pending_sessions, outbox, acts, nevents>>

\* The task is cancelled from outside (a fault of the environment).  Before its first step nothing of the
\* coroutine runs; at a suspension point CancelledError passes through finally.
\* A send that is cancelled may or may not have gone out.
Cancel(i) ==
    /\ nevents < MaxEvents
    /\ nevents' = nevents + 1
    /\ InFlight(tasks[i])
    /\ IF tasks[i].pc = "created"
       THEN /\ tasks' = [tasks EXCEPT ![i] = Exited(@, "unstarted")]
            /\ UNCHANGED pending_sessions
       ELSE CycleExit(i, "cancelled")
    /\ \/ UNCHANGED outbox
       \/ /\ tasks[i].pc = "send"
          /\ outbox' = Append(outbox, Sent(i))
    /\ UNCHANGED <<cm, store_vars, now, last_message_time, acts>>

Sleeping(t) == t.pc \in {"sleep", "delay", "retry_wait"}

\* a callback that is ready runs before the clock moves on
Urgent(t) == t.pc = "created" \/ (Sleeping(t) /\ t.wake <= now)

NextSecond == ((now \div TicksPerSecond) + 1) * TicksPerSecond

Wakes == {tasks[i].wake : i \in {j \in 1..Len(tasks) : Sleeping(tasks[j])}}

NextWake == CHOOSE t \in Wakes : \A u \in Wakes : t <= u

\* time passes until the next timer of the event loop is due, as long as it is
\* due within the seconds the model follows
TimerFiresBy(limit) ==
    /\ Wakes # {}
    /\ \A i \in 1..Len(tasks) : ~Urgent(tasks[i])
    /\ NextWake <= Sec(limit)
    /\ now' = NextWake
    /\ UNCHANGED <<cm, store_vars, last_message_time, pending_sessions, tasks, outbox, acts, nevents>>

TimerFires == TimerFiresBy(MaxSeconds)

\* time passes up to the next whole second, no timer being due before it
Tick ==
    /\ nevents < MaxEvents
    /\ Wakes # {}
    /\ \A i \in 1..Len(tasks) : ~Urgent(tasks[i])
    /\ NextSecond < NextWake
    /\ now' = NextSecond
    /\ UNCHANGED <<cm, store_vars, last_message_time, pending_sessions, tasks, outbox, acts, nevents>>

\* the inbound events of the model
Events ==
    { Event("group", 1, 2, FALSE, TRUE, TRUE),
      Event("group", 1, 2, FALSE, TRUE, FALSE),
      Event("private", 2, 2, FALSE, TRUE, FALSE),
      Event("group", 1, 2, TRUE, TRUE, FALSE) }

ClearEvent == Event("group", 1, 2, TRUE, TRUE, FALSE)

Init ==
    /\ InitStoreWith(NoFiles, <<>>)
    /\ InitSched

Next ==
    \/ \E ev \in Events : HandleAllMessage(ev)
    \/ ClearCommand(ClearEvent)
    \/ \E id \in {ClearEvent.id} : DeleteCall(id)
    \/ \E i \in 1..Len(tasks) : TaskStart(i)
    \/ \E i \in 1..Len(tasks) : TaskWake(i)
    \/ \E i \in 1..Len(tasks), r \in Responses : QueryReturn(i, r)
    \/ \E i \in 1..Len(tasks) : QueryError(i)
    \/ \E i \in 1..Len(tasks) : RetryWake(i)
    \/ \E i \in 1..Len(tasks) : SendDone(i)
    \/ \E i \in 1..Len(tasks) : SendFail(i)
    \/ \E i \in 1..Len(tasks) : DelayWake(i)
    \/ \E i \in 1..Len(tasks) : Cancel(i)
    \/ TimerFires

\* The debounce timing on its own: inbound events of one conversation at any whole
\* second, every query answered, nothing cancelled.
DebounceEvents ==
    { Event("group", 1, 2, FALSE, TRUE, TRUE),
      Event("group", 1, 2, FALSE, TRUE, FALSE) }

DebounceResponses == { <<>>, <<Text(0, 2, 0, 101), Text(0, 2, 0, 102)>> }

NextDebounce ==
    \/ \E ev \in DebounceEvents : HandleAllMessage(ev)
    \/ \E i \in 1..Len(tasks) : TaskStart(i)
    \/ \E i \in 1..Len(tasks) : TaskWake(i)
    \/ \E i \in 1..Len(tasks), r \in DebounceResponses : QueryReturn(i, r)
    \/ \E i \in 1..Len(tasks) : SendDone(i)
    \/ \E i \in 1..Len(tasks) : DelayWake(i)
    \/ TimerFires
    \/ Tick

SpecDebounce == Init /\ [][NextDebounce]_vars

\* The delivery of replies on its own: qualifying events of one conversation,
\* every query answered, by results of many shapes, and every send returning.
PartLens == {1, 45, 46, 89, 90, 91}

DeliveryResponses ==
    { <<>>,
      <<Text(1, 0, 0, 0)>>,
      <<Text(0, 0, 0, 0), Text(0, 2, 0, 7), Text(0, 0, 0, 0)>>,
      <<Text(0, 2, 0, 1), Text(0, 90, 0, 2)>>,
      <<Text(0, 1, 0, 1), Text(3, 44, 0, 2), Text(0, 0, 2, 0), Text(2, 91, 1, 3)>> }
    \cup { <<Text(1, 2, 1, 1), Text(0, 0, 0, 0), Text(0, n, 0, 2)>> : n \in PartLens }

DeliveryEvents == { Event("group", 1, 2, FALSE, TRUE, TRUE) }

\* one cycle on its own: the first event starts it, later events only while the
\* conversation is pending
NextDelivery ==
    \/ \E ev \in DeliveryEvents : (tasks = <<>> \/ ~Admits(ev)) /\ HandleAllMessage(ev)
    \/ \E i \in 1..Len(tasks) : TaskStart(i)
    \/ \E i \in 1..Len(tasks) : TaskWake(i)
    \/ \E i \in 1..Len(tasks), r \in DeliveryResponses : QueryReturn(i, r)
    \/ \E i \in 1..Len(tasks) : SendDone(i)
    \/ \E i \in 1..Len(tasks) : DelayWake(i)
    \/ TimerFires

SpecDelivery == Init /\ [][NextDelivery]_vars

\* Several conversations side by side: a group, the private chat of the user
\* whose id is the group's id, and the private chat of another user; every
\* message is to the bot, and every query is answered by an empty result.
PairEvents ==
    { Event("group", 1, 2, FALSE, TRUE, TRUE),
      Event("private", 1, 1, FALSE, TRUE, FALSE),
      Event("private", 2, 2, FALSE, TRUE, FALSE) }

NextPair ==
    \/ \E ev \in PairEvents : HandleAllMessage(ev)
    \/ \E i \in 1..Len(tasks) : TaskStart(i)
    \/ \E i \in 1..Len(tasks) : TaskWake(i)
    \/ \E i \in 1..Len(tasks) : QueryReturn(i, <<>>)
    \/ TimerFires

SpecPair == Init /\ [][NextPair]_vars

\* Replies on their own: the end of delayed_llm_query for one group conversation,
\* with messages of users between the replies, time passing, and restarts of
\* the process. The event loop's clock starts at 0, or two minutes before the
\* local clocks are set back.
ReplyStarts == {0, Sec(FallBack - T0 - 120)}

ReplyParts == { <<Text(0, 2, 0, 101)>>, <<Text(0, 2, 0, 102), Text(0, 3, 0, 103)>> }

\* the seconds that pass before an operation
ReplyPauses == {100, MergeWindow, MergeWindow + 1}

InitReplies ==
    /\ InitStoreWith([NoFiles EXCEPT ![<<"group", StoreId>>] =
                         EmptyRecord("group", StoreId, DefaultMaxHistories)],
                     << <<"group", StoreId>> >>)
    /\ now \in ReplyStarts
    /\ last_message_time = [id \in Ids |-> 0]
    /\ pending_sessions = {}
    /\ tasks = <<>>
    /\ outbox = <<>>
    /\ acts = [id \in Ids |-> <<>>]
    /\ nevents = 0
    /\ cm = ConfigLoaded

\* d seconds later the last matcher.send of a cycle returns and the reply is
\* recorded
ReplyRecorded(id, parts, d) ==
    /\ nops < MaxOps
    /\ nops' = nops + 1
    /\ cm' = cm
    /\ now' = now + Sec(d)
    /\ outbox' = Append(outbox, [task |-> 0, part |-> Last(parts),
                                 began |-> now', done |-> now'])
    /\ add_self_message(id, BotMessageAt(Wall(now'), parts))
    /\ UNCHANGED <<last_message_time, pending_sessions, tasks, acts, nevents>>

\* d seconds later a message of a user arrives and is added
UserMessage(id, u, d) ==
    /\ nops < MaxOps
    /\ nops' = nops + 1
    /\ cm' = cm
    /\ now' = now + Sec(d)
    /\ StoreAdd("group", id, Msg(u, Wall(now'), nops + 1))
    /\ UNCHANGED <<last_message_time, pending_sessions, tasks, outbox, acts, nevents>>

NextReplies ==
    \/ \E parts \in ReplyParts, d \in ReplyPauses : ReplyRecorded(StoreId, parts, d)
    \/ \E u \in Users, d \in ReplyPauses : UserMessage(StoreId, u, d)
    \/ LoadSession(StoreId)

SpecReplies == InitReplies /\ [][NextReplies]_vars

\* Clear commands among the cycles: the events of one conversation and /clear
\* for it at any moment between the steps of its cycles; every query answered.
NextClear ==
    \/ \E ev \in DebounceEvents : HandleAllMessage(ev)
    \/ ClearCommand(ClearEvent)
    \/ \E i \in 1..Len(tasks) : TaskStart(i)
    \/ \E i \in 1..Len(tasks) : TaskWake(i)
    \/ \E i \in 1..Len(tasks), r \in DebounceResponses : QueryReturn(i, r)
    \/ \E i \in 1..Len(tasks) : SendDone(i)
    \/ \E i \in 1..Len(tasks) : DelayWake(i)
    \/ TimerFires

SpecClear == Init /\ [][NextClear]_vars

\* The cycles to their end: inbound events of one conversation at any whole
\* second, until they stop; every request ends, with a response or with an error
\* that is retried; every send returns; nothing is cancelled.  The clock is
\* followed for LiveHorizon seconds, more than any cycle of the model needs.
LiveHorizon == 40

\* a step of a delayed_llm_query task that the event loop can run
CycleStep ==
    \/ \E i \in 1..Len(tasks) : TaskStart(i)
    \/ \E i \in 1..Len(tasks) : TaskWake(i)
    \/ \E i \in 1..Len(tasks), r \in DebounceResponses : QueryReturn(i, r)
    \/ \E i \in 1..Len(tasks) : QueryError(i)
    \/ \E i \in 1..Len(tasks) : RetryWake(i)
    \/ \E i \in 1..Len(tasks) : SendDone(i)
    \/ \E i \in 1..Len(tasks) : DelayWake(i)

NextLive ==
    \/ \E ev \in DebounceEvents : HandleAllMessage(ev)
    \/ CycleStep
    \/ TimerFiresBy(LiveHorizon)
    \/ Tick

\* the event loop runs a callback that is ready and lets its timers fire; a
\* request and a send that were begun end
SpecLive ==
    /\ Init
    /\ [][NextLive]_vars
    /\ WF_vars(CycleStep)
    /\ WF_vars(TimerFiresBy(LiveHorizon))

\* The ConfigManager on its own: it is constructed over any two files, then
\* its methods are called from two threads while the file is edited.
StartContents == {"absent", "bad", "v1"}

InitConfig ==
    /\ InitStoreWith(NoFiles, <<>>)
    /\ now = 0
    /\ last_message_time = [id \in Ids |-> 0]
    /\ pending_sessions = {}
    /\ tasks = <<>>
    /\ outbox = <<>>
    /\ acts = [id \in Ids |-> <<>>]
    /\ nevents = 0
    /\ \E c \in StartContents, b \in StartContents : cm = ConfigWith(c, b)

\* a step of a thread inside the manager
CmStep(t) == CmRestore(t) \/ CmAcquire(t) \/ CmLocked(t) \/ CmResume(t)

NextConfig ==
    \/ \E t \in Threads, fn \in Calls : CmCall(t, fn)
    \/ \E t \in Threads : CmRestore(t)
    \/ \E t \in Threads : CmAcquire(t)
    \/ \E t \in Threads : CmLocked(t)
    \/ \E t \in Threads : CmResume(t)
    \/ \E c \in {"absent", "bad", "v2"} : CmEdit(c)

\* every thread runs when it can
SpecConfig ==
    /\ InitConfig
    /\ [][NextConfig]_vars
    /\ \A t \in Threads : WF_vars(CmStep(t))

Spec == Init /\ [][Next]_vars

-----------------------------------------------------------------------------
(* Claims about the scheduler, checked under Spec and SpecDebounce *)

CyclesOf(id) == {i \in 1..Len(tasks) : tasks[i].sid = id /\ InFlight(tasks[i])}

Fired == {i \in 1..Len(tasks) : tasks[i].fire_at >= 0}

\* C1: at most one delayed_llm_query task, from its creation to the end of its
\* finally block, exists per conversation id at any time.
C1_AtMostOneCycle ==
    \A id \in Ids : Cardinality(CyclesOf(id)) <= 1

\* C2: an id is in pending_sessions exactly when a cycle of that conversation is
\* in flight (admitted and not yet exited).
C2_PendingIffInFlight ==
    \A id \in Ids : (id \in pending_sessions) <=> (CyclesOf(id) # {})

\* C3: once no cycle of a conversation remains, whatever way its cycles exited,
\* pending is false, so the next qualifying event is admitted.
C3_PendingClearedAtRest ==
    \A id \in Ids : CyclesOf(id) = {} => id \notin pending_sessions

\* a cycle was cancelled while executing, another ended on a failure, none remains
C3_Witness ==
    \E i, j \in 1..Len(tasks) :
        /\ tasks[i].sid = tasks[j].sid
        /\ tasks[i].exit = "cancelled"
        /\ tasks[i].fire_at >= 0
        /\ tasks[j].exit \in {"empty", "error"}
        /\ CyclesOf(tasks[i].sid) = {}
        /\ tasks[i].sid \notin pending_sessions

\* C8: quiet_threshold 3, poll 5: admitted at t=0 with no further activity, the
\* cycle enters Executing in [3, 8); with one further qualifying activity at t=4,
\* in [7, 12) and not before.
C8_DebounceFiring ==
    \A i \in Fired :
        tasks[i].admit_at = 0 =>
            /\ tasks[i].fired_acts = <<[t |-> 0, qual |-> TRUE]>>
                  => (3 * TicksPerSecond <= tasks[i].fire_at
                        /\ tasks[i].fire_at < 8 * TicksPerSecond)
            /\ tasks[i].fired_acts = <<[t |-> 0, qual |-> TRUE],
                                       [t |-> 4 * TicksPerSecond, qual |-> TRUE]>>
                  => (7 * TicksPerSecond <= tasks[i].fire_at
                        /\ tasks[i].fire_at < 12 * TicksPerSecond)

\* a cycle admitted at t=0 and postponed by a qualifying activity at t=4 has fired
C8_Witness ==
    \E i \in Fired :
        /\ tasks[i].admit_at = 0
        /\ tasks[i].fired_acts = <<[t |-> 0, qual |-> TRUE],
                                   [t |-> 4 * TicksPerSecond, qual |-> TRUE]>>

RECURSIVE LastQualifying(_)
LastQualifying(as) ==
    IF as = <<>> THEN -1
    ELSE IF Last(as).qual THEN Last(as).t
         ELSE LastQualifying(SubSeq(as, 1, Len(as) - 1))

C10_QueryFromStore ==
    \A i \in Fired :
        /\ tasks[i].store_has
        /\ tasks[i].query_input = tasks[i].store_at_build

-----------------------------------------------------------------------------
(* Claims about failure, cancellation and delivery *)

\* what matcher.send delivered for task i, in order
SentBy(i) ==
    LET Mine(e) == e.task = i
    IN  SelectSeq(outbox, Mine)

\* C11: a cycle that fails (the query raises, returns nothing or only blank
\* lines, or a step of the cycle raises) has sent no part and appended no message.
C11_FailureLeavesNothing ==
    \A i \in 1..Len(tasks) :
        tasks[i].exit \in {"empty", "error"} =>
            /\ tasks[i].nsent = 0
            /\ SentBy(i) = <<>>
            /\ ~tasks[i].recorded

\* C12: a cycle cancelled at a suspension point (the debounce sleep, the query
\* call, an inter-part delay) has sent no part and appended no reply, and its
\* exit has cleared pending unless another cycle of the conversation remains.
C12_CancelLeavesNothing ==
    \A i \in 1..Len(tasks) :
        (tasks[i].exit = "cancelled" /\ tasks[i].at \in {"sleep", "query", "retry_wait", "delay"}) =>
            /\ tasks[i].nsent = 0
            /\ SentBy(i) = <<>>
            /\ ~tasks[i].recorded
            /\ (CyclesOf(tasks[i].sid) = {} => tasks[i].sid \notin pending_sessions)

\* C13: within one cycle the parts are sent in the order of the result, each
\* once (what was sent is a prefix of the parts, all of them on success), and a
\* send begins only after the send before it has returned.
C13_PartsInOrder ==
    \A i \in 1..Len(tasks) :
        LET s == SentBy(i)
        IN  /\ Len(s) <= Len(tasks[i].parts)
            /\ \A k \in 1..Len(s) : s[k].part = tasks[i].parts[k]
            /\ \A k \in 2..Len(s) : s[k - 1].done <= s[k].began
            /\ tasks[i].pc = "send" => Len(s) = tasks[i].idx - 1
            /\ tasks[i].exit = "success" => Len(s) = Len(tasks[i].parts)

\* a reply of two different parts has been delivered whole
C13_Witness ==
    \E i \in 1..Len(tasks) :
        /\ tasks[i].exit = "success"
        /\ Len(tasks[i].parts) = 2
        /\ tasks[i].parts[1] # tasks[i].parts[2]
        /\ Len(SentBy(i)) = 2

\* clamp(n / 60, 0.75, 1.5) seconds in ticks of 1/60 s, by its three ranges
ClampedDelay(n) == IF n <= 45 THEN 45 ELSE IF n < 90 THEN n ELSE 90

\* C14: the send of part 0 begins when the result arrives; the send of each later
\* part begins clamp(len(part)/60, 0.75, 1.5) s after the send before it
\* returned: 0.75 s up to 45 characters, len/60 s between, 1.5 s from 90 on.
C14_DeliveryDelay ==
    \A i \in 1..Len(tasks) :
        LET s == SentBy(i)
        IN  /\ s # <<>> => s[1].began = tasks[i].answered_at
            /\ \A k \in 2..Len(s) :
                  s[k].began - s[k - 1].done = ClampedDelay(s[k].part.len)

\* a part of 90 characters was sent exactly 1.5 s after the part before it
C14_Witness ==
    \E i \in 1..Len(tasks) :
        LET s == SentBy(i)
        IN  /\ Len(s) = 2
            /\ s[2].part.len = 90
            /\ s[2].began - s[1].done = 90

\* the lines that are not blank, as they are
NonBlankLines(response) ==
    LET NonBlank(line) == line.len > 0
    IN  SelectSeq(response, NonBlank)

\* C15: the parts are the lines of the result, in order, without the blank
\* (empty or whitespace-only) lines; a result without a non-blank line gives no
\* parts and the cycle ends as a failure that sent nothing.
C15_PartsAreLines ==
    \A i \in 1..Len(tasks) :
        tasks[i].answered_at >= 0 =>
            /\ tasks[i].parts = NonBlankLines(tasks[i].response)
            /\ \A k \in 1..Len(tasks[i].parts) : TextLen(tasks[i].parts[k]) > 0
            /\ tasks[i].parts = <<>> => (tasks[i].exit = "empty" /\ SentBy(i) = <<>>)

\* C15, amended: the parts are the non-blank lines of the result, in order, each
\* without its leading and trailing whitespace, so every part is non-empty; a
\* result without a non-blank line gives no parts and the cycle ends as a failure
\* that sent nothing.
C15_PartsAreStrippedLines ==
    \A i \in 1..Len(tasks) :
        tasks[i].answered_at >= 0 =>
            LET lines == NonBlankLines(tasks[i].response)
            IN  /\ Len(tasks[i].parts) = Len(lines)
                /\ \A k \in 1..Len(lines) :
                      /\ tasks[i].parts[k].len = lines[k].len
                      /\ tasks[i].parts[k].tag = lines[k].tag
                      /\ tasks[i].parts[k].lead = 0
                      /\ tasks[i].parts[k].trail = 0
                      /\ TextLen(tasks[i].parts[k]) > 0
                /\ tasks[i].parts = <<>> => (tasks[i].exit = "empty" /\ SentBy(i) = <<>>)

\* a result with a blank line and a line with whitespace around it was delivered
C15_Witness ==
    \E i \in 1..Len(tasks) :
        /\ tasks[i].exit = "success"
        /\ \E k \in 1..Len(tasks[i].response) : tasks[i].response[k].len = 0
        /\ \E k \in 1..Len(tasks[i].response) :
              tasks[i].response[k].len > 0 /\ tasks[i].response[k].lead > 0
        /\ Len(SentBy(i)) = Len(tasks[i].parts)

\* C16: a cycle appends a message exactly when it has sent all its parts: one
\* message whose user_id equals the self_id of the conversation and whose content
\* is one text item per part, in sending order.
C16_ReplyRecorded ==
    \A i \in 1..Len(tasks) :
        /\ tasks[i].exit = "success" =>
              /\ tasks[i].recorded
              /\ Len(tasks[i].record) = 1
              /\ tasks[i].record[1].user_id = objs[tasks[i].sess].self_id
              /\ tasks[i].record[1].message = MapSeq(TextContent, tasks[i].parts)
        /\ tasks[i].recorded =>
              /\ tasks[i].exit = "success"
              /\ Len(SentBy(i)) = Len(tasks[i].parts)

-----------------------------------------------------------------------------
(* Claims about the durable record *)

\* the record of the Session object r
RecordOf(r) == files[FileKey(objs[r])]

\* C18: after every add_message and clear_history of a conversation, its record
\* is the serialization of the whole conversation in memory, and stays so for
\* the conversation the store holds until the next operation.
C18_RecordMatchesMemory ==
    last_op.op \in {"add", "clear"} /\ last_op.write = "written" =>
        /\ RecordOf(last_op.ref) = Session_to_dict(objs[last_op.ref])
        /\ sessions[last_op.id] = last_op.ref

\* an append that merged and an append that evicted are both on record
C18_Witness ==
    /\ last_op.op = "add"
    /\ last_op.write = "written"
    /\ ~LastOpMerged
    /\ Len(last_op.pre) >= last_op.cap
    /\ Len(RecordOf(last_op.ref).messages) >= 2
    /\ \E k \in 1..Len(objs[last_op.ref].messages) :
          Len(objs[last_op.ref].messages[k].message) >= 2

\* C19: clear_history leaves the conversation without messages and its record
\* with an empty messages list, whatever the history was; the conversation keeps
\* its max_histories, its id and its kind, in memory and on record.
C19_ClearEmpties ==
    last_op.op = "clear" =>
        LET s == objs[last_op.ref]
        IN  /\ s.messages = <<>>
            /\ s.max_histories = last_op.cap
            /\ s.session_id = last_op.id
            /\ s.session_type = last_op.kind
            /\ sessions[last_op.id] = last_op.ref
            /\ last_op.write = "written" =>
                  /\ RecordOf(last_op.ref) # NoFile
                  /\ RecordOf(last_op.ref).messages = <<>>
                  /\ RecordOf(last_op.ref).max_histories = last_op.cap
                  /\ RecordOf(last_op.ref).session_id = last_op.id
                  /\ RecordOf(last_op.ref).session_type = last_op.kind

\* a history of several entries has been cleared
C19_Witness ==
    /\ last_op.op = "clear"
    /\ last_op.write = "written"
    /\ Len(last_op.pre) >= 2
    /\ objs[last_op.ref].messages = <<>>

\* C20: after delete_session no conversation of the id is in memory and no
\* record of it is left, of either kind, so that get_session for the id, private
\* or group, gives an empty conversation.
C20_DeleteRemovesAll ==
    last_op.op = "delete" =>
        /\ sessions[last_op.id] = 0
        /\ \A k \in Kinds :
              /\ files[<<k, last_op.id>>] = NoFile
              /\ NewSession(files, last_op.id, k, SelfId, DefaultMaxHistories).messages = <<>>

\* C17: a conversation saved to its record and constructed again from it, by
\* Session.__init__ or by Session.from_dict, has as many messages, in the same
\* order, with equal user_name, user_id and content items and with timestamps
\* at most 1 second apart.
C17_RoundTrip ==
    last_op.op = "load" =>
        LET a == last_op.pre
            b == objs[last_op.ref].messages
        IN  /\ Len(b) = Len(a)
            /\ \A k \in 1..Len(a) :
                  /\ b[k].user_name = a[k].user_name
                  /\ b[k].user_id = a[k].user_id
                  /\ b[k].message = a[k].message
                  /\ Abs(b[k].time - a[k].time) <= 1

-----------------------------------------------------------------------------
(* Claims about loading, failing writes and malformed content, checked under
   SpecStore *)

\* the last operation went through get_session
ThroughGetSession == last_op.op \in {"add", "clear"}

\* a record that cannot be read as a history: not JSON, or a message in it that
\* SimpleMessage.from_dict refuses
Damaged(rec) ==
    \/ rec = Unreadable
    \/ \E i \in 1..Len(rec.messages) : SimpleMessage_from_dictRaises(rec.messages[i])

LoadAllSkipsOnlyDamaged ==
    last_op.op = "init" =>
        \A k \in Kinds \X Ids :
            files[k] # NoFile =>
                IF Session_from_dictRaises(files[k])
                THEN \A r \in 1..Len(objs) : FileKey(objs[r]) # k
                ELSE \E r \in 1..Len(objs) :
                        /\ FileKey(objs[r]) = k
                        /\ Len(objs[r].messages) = Len(files[k].messages)

\* C22: start-up never fails, a record that cannot be read is skipped without
\* effect on the others, and the conversation of a skipped record is not in
\* memory until get_session constructs it, with an empty history.
C22_SkippedComesBackEmpty ==
    /\ LoadAllSkipsOnlyDamaged
    /\ (/\ ThroughGetSession
        /\ last_op.found.had = 0
        /\ last_op.found.rec # NoFile
        /\ Session_from_dictRaises(last_op.found.rec))
       => last_op.pre = <<>>

-----------------------------------------------------------------------------
(* Failing writes, checked under SpecFaults *)

\* C23: when _save_session fails in add_message or clear_history, the operation
\* ends normally with the conversation in memory updated (the message merged or
\* appended, or the history emptied) and still held by the manager; the record is
\* left as it was or torn, and nothing writes it again before the next
\* operation; an operation whose write succeeds leaves the record equal to the
\* whole conversation in memory, earlier unsaved updates included.
C23_WriteFailure ==
    last_op.op \in {"add", "clear"} =>
        LET cur == objs[last_op.ref].messages
        IN  /\ sessions[last_op.id] = last_op.ref
            /\ last_op.op = "clear" => cur = <<>>
            /\ last_op.op = "add" /\ LastOpMerged =>
                  /\ Len(cur) = Len(last_op.pre)
                  /\ Last(cur).message = Last(last_op.pre).message \o last_op.msg.message
            /\ last_op.op = "add" /\ ~LastOpMerged => Last(cur) = last_op.msg
            /\ last_op.write # "written" =>
                  RecordOf(last_op.ref) \in {last_op.found.rec, Unreadable}
            /\ last_op.write = "written" =>
                  RecordOf(last_op.ref) = Session_to_dict(objs[last_op.ref])

\* a write succeeded after one that failed, and the record holds the history
C23_Witness ==
    /\ last_op.op = "add"
    /\ last_op.write = "written"
    /\ last_op.found.stale
    /\ Len(last_op.pre) >= 1
    /\ RecordOf(last_op.ref) = Session_to_dict(objs[last_op.ref])
    /\ Len(RecordOf(last_op.ref).messages) >= 2

-----------------------------------------------------------------------------
(* Malformed content, checked under SpecFaults *)

\* data that is no content of its type: image_url without url, image_url with a
\* str, text with a dict, text with None
MalformedContents ==
    { <<"image_url", [detail |-> 0]>>,
      <<"image_url", Text(0, 1, 0, 0)>>,
      <<"text", [url |-> 1, detail |-> 0]>>,
      <<"text", None>> }

WellFormed(c) ==
    \/ c.type = "text" /\ IsStr(c.data)
    \/ c.type = "image_url" /\ IsUrlDict(c.data)

\* C24: SimpleMessageContent cannot be constructed as image_url without a url or
\* from data that is no dict, nor as text from data that is no str; an event with
\* such content is never appended: it leaves the history of the conversation and
\* its record as they were, and every content in memory is well formed.
C24_MalformedRejected ==
    /\ \A c \in MalformedContents : ContentRaises(c[1], c[2])
    /\ last_op.op = "reject" =>
          /\ objs[last_op.ref].messages = last_op.pre
          /\ last_op.found.had # 0 => last_op.pre = last_op.found.before
          /\ files[<<last_op.found.asked, last_op.id>>] = last_op.found.rec
          /\ RecordOf(last_op.ref) = last_op.found.rec
    /\ \A r \in 1..Len(objs) : \A i \in 1..Len(objs[r].messages) :
          \A j \in 1..Len(objs[r].messages[i].message) :
             WellFormed(objs[r].messages[i].message[j])

\* an event with malformed content was rejected by a conversation with a history
C24_Witness ==
    /\ last_op.op = "reject"
    /\ Len(last_op.pre) >= 2
    /\ objs[last_op.ref].messages = last_op.pre
    /\ RecordOf(last_op.ref) # NoFile

-----------------------------------------------------------------------------
(* Identity of conversations, checked under SpecStore *)

\* C25: a conversation is identified by its kind and its id: an add_message or
\* clear_history asked for one kind acts on the conversation of that kind, never
\* on the one of the other kind with the same id, and after start-up the manager
\* holds a conversation for every record that could be read.
C25_KindAndIdIdentify ==
    /\ ThroughGetSession =>
          /\ objs[last_op.ref].session_type = last_op.found.asked
          /\ FileKey(objs[last_op.ref]) = <<last_op.found.asked, last_op.id>>
    /\ last_op.op = "init" =>
          \A k \in Kinds \X Ids :
              files[k] # NoFile /\ ~Session_from_dictRaises(files[k]) =>
                  \E r \in Live : FileKey(objs[r]) = k

-----------------------------------------------------------------------------
(* Conversations side by side, checked under SpecPair *)

\* the cycles in flight of the conversation of this kind and id
OwnCycles(kind, id) ==
    {i \in 1..Len(tasks) :
        tasks[i].sid = id /\ tasks[i].kind = kind /\ InFlight(tasks[i])}

\* an event of the conversation that is to the bot arrives in this step
QualifyingArrives(id) == acts'[id] # acts[id] /\ Last(acts'[id]).qual

\* the cycle i ends in this step
CycleEnds(i) == InFlight(tasks[i]) /\ ~InFlight(tasks'[i])

\* C26: a qualifying event of a conversation (kind and id) none of whose own
\* cycles is in flight starts a cycle, whatever the cycles of other conversations
\* are doing; and when a cycle ends, the id of every other conversation with a
\* running cycle stays in pending_sessions.
C26_Independent ==
    [][ /\ \A id \in Ids :
              QualifyingArrives(id) /\ OwnCycles(last_op'.found.asked, id) = {}
                  => Len(tasks') = Len(tasks) + 1
        /\ \A i, j \in 1..Len(tasks) :
              (/\ CycleEnds(i)
               /\ <<tasks[j].kind, tasks[j].sid>> # <<tasks[i].kind, tasks[i].sid>>
               /\ InFlight(tasks[j])
               /\ tasks[j].sid \in pending_sessions)
                  => tasks[j].sid \in pending_sessions'
      ]_vars

-----------------------------------------------------------------------------
(* The event that finds its conversation pending, checked under Spec *)

\* C27: when an event that is to the bot arrives while the id of its conversation
\* is in pending_sessions, handle_all_message creates no task and leaves
\* pending_sessions as it is; of the scheduler's state only last_message_time of
\* that id changes, to the time of the event.
C27_PendingEventOnlyTime ==
    [][ \A id \in Ids :
            QualifyingArrives(id) /\ id \in pending_sessions =>
                /\ tasks' = tasks
                /\ pending_sessions' = pending_sessions
                /\ last_message_time' = [last_message_time EXCEPT ![id] = now]
                /\ now' = now
                /\ outbox' = outbox
      ]_vars

\* an event to the bot has just arrived while a cycle admitted earlier sleeps with
\* its id in pending_sessions, and no task was created for it
C27_Witness ==
    \E id \in pending_sessions :
        /\ acts[id] # <<>>
        /\ Last(acts[id]).qual
        /\ Last(acts[id]).t = now
        /\ last_message_time[id] = now
        /\ \E i \in 1..Len(tasks) : tasks[i].sid = id /\ tasks[i].pc = "sleep"
        /\ \A i \in 1..Len(tasks) : tasks[i].admit_at < now

-----------------------------------------------------------------------------
(* Merging and the other entries, checked under SpecStore *)

\* C28: add_message tests the merge against the last entry only: a message whose
\* sender differs from the last entry's becomes a new last entry, even when an
\* earlier entry of its sender lies within 180 s; and every entry but the last
\* is an entry of the history before, unchanged and in the same order.
C28_OnlyLastEntry ==
    last_op.op = "add" =>
        LET pre == last_op.pre
            m   == last_op.msg
            cur == objs[last_op.ref].messages
        IN  /\ pre # <<>> /\ Last(pre).user_id # m.user_id =>
                  /\ Last(cur) = m
                  /\ Len(cur) = IF Len(pre) >= last_op.cap THEN Len(pre) ELSE Len(pre) + 1
            /\ \E shift \in {0, 1} :
                  \A i \in 1..(Len(cur) - 1) :
                      i + shift <= Len(pre) /\ cur[i] = pre[i + shift]

\* sender A, then sender B, then A again within 180 s of A's entry: a third entry
C28_Witness ==
    /\ last_op.op = "add"
    /\ Len(last_op.pre) >= 2
    /\ last_op.pre[Len(last_op.pre) - 1].user_id = last_op.msg.user_id
    /\ Abs(last_op.pre[Len(last_op.pre) - 1].time - last_op.msg.time) <= MergeWindow
    /\ Last(last_op.pre).user_id # last_op.msg.user_id
    /\ Len(objs[last_op.ref].messages) = Len(last_op.pre) + 1
    /\ Last(objs[last_op.ref].messages) = last_op.msg

\* C29: an add_message that merges leaves as many entries as there were, at full
\* capacity too: nothing is evicted, every entry but the last is unchanged, and
\* the last keeps its sender and time and gains the new content.
C29_MergeKeepsEntries ==
    LastOpMerged =>
        LET pre == last_op.pre
            cur == objs[last_op.ref].messages
        IN  /\ Len(cur) = Len(pre)
            /\ SubSeq(cur, 1, Len(cur) - 1) = SubSeq(pre, 1, Len(pre) - 1)
            /\ Last(cur) = [Last(pre) EXCEPT !.message = @ \o last_op.msg.message]

\* a merge into a conversation that holds max_histories entries or more
C29_Witness ==
    /\ LastOpMerged
    /\ Len(last_op.pre) >= 2
    /\ Len(last_op.pre) >= last_op.cap
    /\ Len(objs[last_op.ref].messages) = Len(last_op.pre)
    /\ objs[last_op.ref].messages[1] = last_op.pre[1]

-----------------------------------------------------------------------------
(* Ingestion and reply recording interleaved, checked under Spec *)

\* the content items of a history, in order
RECURSIVE Flat(_)
Flat(msgs) == IF msgs = <<>> THEN <<>> ELSE msgs[1].message \o Flat(Tail(msgs))

IsSuffix(a, b) == Len(a) <= Len(b) /\ a = SubSeq(b, Len(b) - Len(a) + 1, Len(b))

\* C30: whatever the interleaving of handle_all_message and the steps of the
\* cycles, the content of a conversation is the content of everything appended
\* to it since it was last empty, the messages of events and the replies of the
\* bot, in the order of the appends, less what eviction removed at the front
\* (nothing while the history is below max_histories); and after each append the
\* record is the whole conversation.
C30_NoLostUpdate ==
    /\ \A r \in 1..Len(objs) :
          ghost[r].log_valid =>
              /\ IsSuffix(Flat(objs[r].messages), Flat(ghost[r].log))
              /\ Len(objs[r].messages) < objs[r].max_histories =>
                    Flat(objs[r].messages) = Flat(ghost[r].log)
    /\ last_op.op = "add" =>
          RecordOf(last_op.ref) = Session_to_dict(objs[last_op.ref])

\* a cycle has recorded its reply, an event arrived while it was executing, and
\* the history holds the messages of all the events, then the reply
C30_Witness ==
    \E i \in 1..Len(tasks) :
        LET id == tasks[i].sid
            h  == objs[sessions[id]].messages
        IN  /\ tasks[i].recorded
            /\ sessions[id] # 0
            /\ Len(acts[id]) >= 2
            /\ Last(acts[id]).t > tasks[i].fire_at
            /\ Len(h) >= 2
            /\ Last(h) = tasks[i].record[1]
            /\ Len(Flat(SubSeq(h, 1, Len(h) - 1))) = Len(acts[id])
            /\ RecordOf(sessions[id]) = Session_to_dict(objs[sessions[id]])

-----------------------------------------------------------------------------
(* The order of append, admission, query, delivery and reply, checked under Spec *)

\* the entries of all histories that the bot wrote
BotEntries ==
    UNION { {objs[r].messages[k] : k \in {j \in 1..Len(objs[r].messages) :
                                            objs[r].messages[j].user_id = BotUserId}} :
            r \in 1..Len(objs) }

\* C31: when handle_all_message creates a task, the message of its event is
\* already the end of the history of the Session the task is given; and a reply
\* is in a history only when its cycle has had the answer of its query and has
\* sent every part of it.
C31_AppendBeforeAdmit ==
    /\ \A i \in 1..Len(tasks) : tasks[i].has_trigger
    /\ \A i \in 1..Len(tasks) :
          tasks[i].recorded =>
              /\ tasks[i].answered_at >= 0
              /\ tasks[i].parts = split_lines(tasks[i].response)
              /\ Len(SentBy(i)) = Len(tasks[i].parts)
              /\ \A k \in 1..Len(tasks[i].parts) :
                    SentBy(i)[k].began >= tasks[i].answered_at
    /\ \A e \in BotEntries :
          \E i \in 1..Len(tasks) :
              /\ tasks[i].recorded
              /\ \E k \in 1..Len(e.message) : e.message[k] = tasks[i].record[1].message[1]

\* a cycle whose triggering message was in the history at admission has sent a
\* reply of two parts and recorded it
C31_Witness ==
    \E i \in 1..Len(tasks) :
        /\ tasks[i].has_trigger
        /\ tasks[i].recorded
        /\ Len(tasks[i].parts) >= 2
        /\ Len(SentBy(i)) = Len(tasks[i].parts)
        /\ BotEntries # {}

-----------------------------------------------------------------------------
(* Which events postpone firing, checked under SpecDebounce *)

\* an event of the conversation that passed check_access arrives in this step
PermittedArrives(id) == acts'[id] # acts[id]

\* the cycle i leaves its sleep loop for the query in this step
Fires(i) == tasks[i].pc = "sleep" /\ tasks'[i].pc = "query"

-----------------------------------------------------------------------------
(* Replies that follow replies, checked under SpecReplies *)

\* the last operation recorded a reply
ReplyAdded == last_op.op = "add" /\ last_op.msg.user_id = BotUserId

\* C33: of two replies recorded one after the other, with no message of a user
\* between them and not more than 180 s apart, the second is merged into the
\* entry of the first, with or without a restart between them; a reply that
\* follows an entry of a user is a new entry.
C33_RepliesMerge ==
    ReplyAdded =>
        LET pre == last_op.pre
            cur == objs[last_op.ref].messages
        IN  /\ (/\ Len(outbox) = 2
                /\ pre # <<>>
                /\ Last(pre).user_id = BotUserId
                /\ Wall(outbox[2].done) - Wall(outbox[1].done) <= MergeWindow)
               => /\ Len(cur) = Len(pre)
                  /\ Last(cur).message = Last(pre).message \o last_op.msg.message
            /\ (pre # <<>> /\ Last(pre).user_id # BotUserId)
               => /\ Last(cur) = last_op.msg
                  /\ SubSeq(cur, 1, Len(cur) - 1) = pre

\* C34: a merge leaves the time, the sender id and the sender name of the entry
\* as they were, so the window is measured from the first message of the entry:
\* three messages of one sender at t, t + 100 and t + 200, added to an empty
\* conversation, leave two entries, the first two merged and the third apart.
C34_WindowFromFirst ==
    /\ LastOpMerged =>
          LET old == Last(last_op.pre)
              new == Last(objs[last_op.ref].messages)
          IN  /\ new.time = old.time
              /\ new.user_id = old.user_id
              /\ new.user_name = old.user_name
    /\ \A r \in 1..Len(objs) :
          LET log == ghost[r].log
              h   == objs[r].messages
          IN  (/\ ghost[r].log_valid
               /\ Len(log) = 3
               /\ log[1].user_id = log[2].user_id /\ log[2].user_id = log[3].user_id
               /\ log[2].time = log[1].time + 100
               /\ log[3].time = log[1].time + 200)
              => /\ Len(h) = 2
                 /\ h[1] = [log[1] EXCEPT !.message = @ \o log[2].message]
                 /\ h[2] = log[3]

\* three messages of one sender, 100 s after one another, are two entries
C34_Witness ==
    \E r \in 1..Len(objs) :
        /\ ghost[r].log_valid
        /\ Len(ghost[r].log) = 3
        /\ \A k \in 1..3 : ghost[r].log[k].user_id = UserId(1)
        /\ ghost[r].log[2].time = ghost[r].log[1].time + 100
        /\ ghost[r].log[3].time = ghost[r].log[1].time + 200
        /\ Len(objs[r].messages) = 2
        /\ Len(objs[r].messages[1].message) = 2

\* C35: when the inbound events have stopped and every request and every send
\* returns, every cycle that was admitted exits (a task that is over stays
\* over), and from then on the conversation has no cycle and is not pending;
\* no timer of a cycle lies beyond the seconds that are followed.
AtRest ==
    /\ \A i \in 1..Len(tasks) : ~InFlight(tasks[i])
    /\ pending_sessions = {}

C35_CyclesExit ==
    /\ [](Wakes # {} => NextWake <= Sec(LiveHorizon))
    /\ <>[]AtRest

\* a cycle that slept more than once fired, sent its parts and exited; the
\* conversation is at rest
C35_Witness ==
    /\ AtRest
    /\ \E i \in 1..Len(tasks) :
          /\ tasks[i].exit = "success"
          /\ tasks[i].fire_at >= tasks[i].admit_at + Sec(2 * PollInterval)

\* the k-th permitted event of the conversation came before a cycle of the
\* conversation built the input of its request
Answered(id, k) ==
    \E i \in 1..Len(tasks) : tasks[i].sid = id /\ Len(tasks[i].built_acts) >= k

\* the k-th permitted event of the conversation came while a cycle of the
\* conversation was executing: after it had built the input of its request for
\* the last time and before it exited
CameWhileExecuting(id, k) ==
    \E i \in 1..Len(tasks) :
        /\ tasks[i].sid = id
        /\ tasks[i].pc = "done"
        /\ tasks[i].fire_at >= 0
        /\ Len(tasks[i].built_acts) < k
        /\ k <= Len(tasks[i].exit_acts)

QualifyingEvents == {p \in Ids \X (1..MaxEvents) : p[2] <= Len(acts[p[1]]) /\ acts[p[1]][p[2]].qual}

ClearStep == nevents' # nevents /\ acts' = acts

\* the cycle i exits in this step after its last send
Succeeds(i) == tasks[i].pc = "send" /\ tasks'[i].exit = "success"

\* C37: handle_clear empties the history of the conversation and its record and
\* leaves pending, the time of the last message and every task as they were; a
\* cycle that fires afterwards builds its request from what was appended since
\* the Clear, and its reply is appended to that.
C37_ClearOnlyHistory ==
    [][ /\ ClearStep =>
              /\ pending_sessions' = pending_sessions
              /\ last_message_time' = last_message_time
              /\ tasks' = tasks
              /\ outbox' = outbox
              /\ objs'[sessions'[ClearEvent.id]].messages = <<>>
              /\ files'[<<ClearEvent.kind, ClearEvent.id>>].messages = <<>>
              /\ \A r \in 1..Len(objs) :
                    r # sessions'[ClearEvent.id] => objs'[r] = objs[r]
        /\ \A i \in 1..Len(tasks) :
              Fires(i) =>
                  /\ tasks[i].sess = sessions[tasks[i].sid]
                  /\ Flat(tasks'[i].query_input) = Flat(ghost[tasks[i].sess].log)
        /\ \A i \in 1..Len(tasks) :
              Succeeds(i) =>
                  /\ tasks[i].sess = sessions[tasks[i].sid]
                  /\ Flat(objs'[tasks[i].sess].messages)
                        = Flat(ghost[tasks[i].sess].log) \o MapSeq(TextContent, tasks[i].parts)
      ]_vars

\* a Clear came while a cycle was pending and another message after it; the
\* cycle fired with that message alone and its reply follows it in the history
C37_Witness ==
    \E i \in 1..Len(tasks) :
        /\ tasks[i].exit = "success"
        /\ Len(Flat(tasks[i].query_input)) = 1
        /\ Len(tasks[i].fired_acts) = 2
        /\ nevents = 3
        /\ Len(objs[tasks[i].sess].messages) = 2
        /\ Last(objs[tasks[i].sess].messages).user_id = BotUserId

\* C38: add_self_message for an id the manager holds no conversation for (after
\* delete_session) changes nothing: no Session object, no entry of the manager
\* and no record is created or altered.
C38_NoResurrection ==
    [][ \A i \in 1..Len(tasks) :
            (Succeeds(i) /\ sessions[tasks[i].sid] = 0) =>
                /\ objs' = objs
                /\ sessions' = sessions
                /\ files' = files
      ]_vars

\* a cycle sent its reply after its conversation was deleted: the manager still
\* holds no conversation for the id and there is no record of either kind
C38_Witness ==
    \E i \in 1..Len(tasks) :
        /\ tasks[i].exit = "success"
        /\ ~tasks[i].recorded
        /\ sessions[tasks[i].sid] = 0
        /\ \A k \in Kinds : files[<<k, tasks[i].sid>>] = NoFile
        /\ last_op.op = "delete"

-----------------------------------------------------------------------------
(* Claims about the ConfigManager, checked under SpecConfig *)

\* the thread waits for the lock it holds itself
WaitsForOwnLock(t) == Running(t) /\ Top(t).pc = "acquire" /\ cm.lock = t

\* the public call the thread is in
Outermost(t) == cm.stack[t][1].fn

\* C39: while ConfigManager() is being constructed, its thread never asks for
\* the lock it already holds, neither on the way to writing the default
\* configuration nor when the load fails and a backup exists.
C39_ConstructNeverBlocks ==
    \A t \in Threads :
        (Running(t) /\ Outermost(t) = "init") => ~WaitsForOwnLock(t)

\* C40: while reload() runs, its thread never asks for the lock it already
\* holds, so the lock is released in the end and no later call waits for ever.
C40_ReloadNeverBlocks ==
    \A t \in Threads :
        (Running(t) /\ Outermost(t) = "reload") => ~WaitsForOwnLock(t)

====
